---- MODULE Spec2Model ----
(***************************************************************************)
(* Conversational tool-orchestration engine of the SmartShop API:          *)
(* ChatService / MCPChatService (chat and chatStream), the two language-   *)
(* model providers, the local tool registry (getToolsForRole, executeTool) *)
(* and the part of MCPManager the orchestrator calls.                      *)
(*                                                                         *)
(* Text is a sequence of tokens (string concatenation is \o), a JSON       *)
(* payload is a sequence of tokens as well, an absent optional field is    *)
(* the empty sequence or the empty string.                                 *)
(***************************************************************************)
EXTENDS Integers, Sequences, FiniteSets, TLC

VARIABLES
    service,       \* "ChatService" | "MCPChatService": the orchestrator serving the turn
    provider,      \* "openai" | "gemini": the LLMProvider behind this.llm
    role,          \* context.userRole of the caller
    turnTool,      \* the tool the model asks for during this turn
    turnArgs,      \* the includeChart argument the model passes ("undefined" | "true" | "false")
    db,            \* what the tools' backing queries find in this turn: "rows" | "empty" | "fails"
    connections,   \* MCPManager.connections: names of the connected servers
    toolToServer,  \* MCPManager.toolToServer: tool name -> server name
    pc,            \* position of the running method
    iterations,    \* the local variable `iterations`
    hasToolCalls,  \* the local variable `hasToolCalls` of ChatService.chatStream
    messages,      \* the working transcript (messages / currentMessages)
    response,      \* the last Message returned by the provider
    callIdx,       \* index of the next tool call of `response` to dispatch
    out,           \* the StreamChunks yielded so far
    outCall,       \* for each yielded chunk, the provider call it belongs to (0 = none)
    result,        \* the Message returned by chat
    toolResult,    \* last value returned by executeTool
    llmCalls,      \* number of calls made to this.llm.chat / this.llm.chatStream
    queries,       \* handler queries that were run, in order
    itemsUsed,     \* stream items the model has produced in this turn
    toolList,      \* last value returned by getToolsForRole / getAllTools
    mcpManager,    \* the module singleton `mcpManager`: "null" | "manager"
    cached,        \* MCPChatService.mcpManager is set
    connPc,        \* per configured server, the position of connect(config)
    procs,         \* per configured server, the process made by spawn()
    closeTried,    \* servers whose client.close() was called by disconnectAll
    discPc,        \* position of disconnectAll
    discVisited,   \* connections the loop of disconnectAll has gone through
    callOutcome,   \* outcome of the last MCPManager.callTool
    servedBefore,  \* tool names in the index when disconnectAll cleared it
    listedConns,   \* the connections the last getAllTools went through
    retryPc,       \* position of GeminiProvider.withRetry
    retryAttempt,  \* the loop variable `attempt` of withRetry
    opRuns,        \* number of times withRetry has run operation()
    opErrors,      \* the errors operation() has thrown, in order
    retryDelay,    \* the local variable `retryDelay`
    elapsed,       \* milliseconds gone by since delay(retryDelay) was called
    sleeps,        \* the delays slept so far, with the time actually waited
    thrown,        \* the error withRetry has thrown to its caller
    conversationStore, \* the array stored for the user: an index of `arrays`, 0 for none
    arrays,        \* the Message arrays made by the route handlers
    req,           \* per request slot, the locals of the handler serving it
    requests,      \* number of requests received so far
    storePc,       \* position of the caller of the VectorStore
    rows,          \* the rows of the embeddings table, in scan order
    searchArgs,    \* the arguments of the last VectorStore.search
    results,       \* the value it returned: a SearchResult[], or a RAGResult
    written,       \* the documents the last add / addBatch was given
    prior          \* the rows of the table when that add / addBatch began

vars == <<service, provider, role, turnTool, turnArgs, db, connections,
          toolToServer, pc, iterations, hasToolCalls, messages, response,
          callIdx, out, outCall, result, toolResult, llmCalls, queries, itemsUsed, toolList,
          mcpManager, cached, connPc, procs, closeTried, discPc, discVisited,
          callOutcome, servedBefore, listedConns,
          retryPc, retryAttempt, opRuns, opErrors, retryDelay, elapsed, sleeps, thrown,
          conversationStore, arrays, req, requests,
          storePc, rows, searchArgs, results, written, prior>>

\* The state of one orchestrator turn and of the tool registry.
coreVars == <<service, provider, role, turnTool, turnArgs, db, connections,
              toolToServer, pc, iterations, hasToolCalls, messages, response,
              callIdx, out, outCall, result, toolResult, llmCalls, queries, itemsUsed, toolList>>

\* The state of GeminiProvider.withRetry.
retryVars == <<retryPc, retryAttempt, opRuns, opErrors, retryDelay, elapsed, sleeps, thrown>>

\* The state of the chat routes.
routeVars == <<conversationStore, arrays, req, requests>>

\* The state of the VectorStore and of its caller.
storeVars == <<storePc, rows, searchArgs, results, written, prior>>

\* The state of the remote tool gateway's lifecycle.
gatewayVars == <<mcpManager, cached, connPc, procs, closeTried, discPc, discVisited,
                 callOutcome, servedBefore, listedConns>>

-----------------------------------------------------------------------------
(* Bounds of the exploration *)

MaxStreamLen == 2      \* items in one raw provider stream
MaxTurnItems == 6      \* items the model produces over one turn
MaxRetriedItems == 1   \* items a Gemini attempt delivers before a rate-limit failure

-----------------------------------------------------------------------------
(* Program constants *)

MAX_TOOL_ITERATIONS == 5
MAX_RETRIES == 3

Roles == {"customer", "admin"}
Services == {"ChatService", "MCPChatService"}
Providers == {"openai", "gemini"}

-----------------------------------------------------------------------------
(* Sequence helpers *)

Range(s) == {s[i] : i \in 1..Len(s)}

RECURSIVE SeqsUpTo(_, _)
SeqsUpTo(S, n) ==
    IF n = 0 THEN {<<>>}
    ELSE LET shorter == SeqsUpTo(S, n - 1)
         IN shorter \cup {Append(s, x) : s \in {t \in shorter : Len(t) = n - 1}, x \in S}

Last(s) == s[Len(s)]


-----------------------------------------------------------------------------
(* Local tool registry: tools.ts *)

CustomerToolNames ==
    <<"semantic_search_products", "search_products", "get_product_details",
      "get_my_orders", "get_order_details", "get_my_cart", "get_my_spending">>

AdminOnlyToolNames ==
    <<"get_sales_dashboard", "get_sales_analytics", "get_top_products",
      "get_inventory_status", "get_revenue_by_category">>

Tool(n) == [name |-> n]

customerTools == [i \in 1..Len(CustomerToolNames) |-> Tool(CustomerToolNames[i])]

adminTools ==
    customerTools \o [i \in 1..Len(AdminOnlyToolNames) |-> Tool(AdminOnlyToolNames[i])]

getToolsForRole_AlwaysAdmin(r) == adminTools

getToolsForRole(r) == IF r = "admin" THEN adminTools ELSE customerTools

DbStates == {"rows", "empty", "fails"}
ArgStates == {"undefined", "true", "false"}

DbErrorMessage == <<"query failed">>

\* Outcome of a function body: a returned value (with its optional chart)
\* or a thrown Error, and the queries it ran on the way.
Return(v, c, q) == [threw |-> FALSE, value |-> v, chart |-> c, message |-> <<>>, ran |-> q]
Throw(m, q) == [threw |-> TRUE, value |-> <<>>, chart |-> "", message |-> m, ran |-> q]

\* A handler whose body is one read query and no chart.
PlainHandler(n, d) ==
    IF d = "fails" THEN Throw(DbErrorMessage, <<n>>)
    ELSE Return(<<n, d>>, "", <<n>>)

\* getProductDetails / getOrderDetails: throw when the row is missing.
LookupHandler(n, d, notFound) ==
    IF d = "fails" THEN Throw(DbErrorMessage, <<n>>)
    ELSE IF d = "empty" THEN Throw(notFound, <<n>>)
    ELSE Return(<<n, d>>, "", <<n>>)

\* getSalesAnalytics / getTopProducts / getRevenueByCategory: includeChart
\* has a default, and the chart is attached only when there are rows.
ChartHandler(n, includeChart, default, chartType, d) ==
    LET inc == IF includeChart = "undefined" THEN default ELSE includeChart = "true"
    IN IF d = "fails" THEN Throw(DbErrorMessage, <<n>>)
       ELSE Return(<<n, d>>, IF inc /\ d = "rows" THEN chartType ELSE "", <<n>>)

\* semanticSearchProducts: with this store state both branches end in
\* searchProducts(args), whose failure is not caught.
semanticSearchProducts(d) ==
    IF d = "fails" THEN Throw(DbErrorMessage, <<"semantic_search_products">>)
    ELSE Return(<<"semantic_search_products", d>>, "", <<"semantic_search_products">>)

AdminOnly_Skipped(r, body) == body

\* if (context.userRole !== 'admin') throw new Error('Admin only')
AdminOnly(r, body) == IF r # "admin" THEN Throw(<<"Admin only">>, <<>>) ELSE body

executeToolInternal(toolName, includeChart, r, d) ==
    CASE toolName = "semantic_search_products" -> semanticSearchProducts(d)
      [] toolName = "search_products" -> PlainHandler(toolName, d)
      [] toolName = "get_product_details" -> LookupHandler(toolName, d, <<"Product not found">>)
      [] toolName = "get_my_orders" -> PlainHandler(toolName, d)
      [] toolName = "get_order_details" -> LookupHandler(toolName, d, <<"Order not found">>)
      [] toolName = "get_my_cart" -> PlainHandler(toolName, d)
      [] toolName = "get_my_spending" -> PlainHandler(toolName, d)
      [] toolName = "get_sales_dashboard" ->
            AdminOnly(r, PlainHandler(toolName, d))
      [] toolName = "get_sales_analytics" ->
            AdminOnly(r, ChartHandler(toolName, includeChart, TRUE, "line", d))
      [] toolName = "get_top_products" ->
            AdminOnly(r, ChartHandler(toolName, includeChart, FALSE, "bar", d))
      [] toolName = "get_inventory_status" ->
            AdminOnly(r, PlainHandler(toolName, d))
      [] toolName = "get_revenue_by_category" ->
            AdminOnly(r, ChartHandler(toolName, includeChart, TRUE, "pie", d))
      [] OTHER -> Throw(<<"Unknown tool: ", toolName>>, <<>>)

\* JSON.stringify of { error: message } and of a handler's value.
JSONError(m) == <<"{error:">> \o m \o <<"}">>
JSONValue(v) == <<"{value:">> \o v \o <<"}">>

\* The ExtendedToolResult, or the exception that leaves executeTool.
ToolResult(c, ch, q) == [threw |-> FALSE, content |-> c, chart |-> ch, ran |-> q]
ToolThrow(q) == [threw |-> TRUE, content |-> <<>>, chart |-> "", ran |-> q]

executeTool_NoCatch(toolName, includeChart, r, d) ==
    LET o == executeToolInternal(toolName, includeChart, r, d)
    IN IF o.threw THEN ToolThrow(o.ran)
       ELSE ToolResult(JSONValue(o.value), o.chart, o.ran)

executeTool(toolName, includeChart, r, d) ==
    LET o == executeToolInternal(toolName, includeChart, r, d)
    IN IF o.threw THEN ToolResult(JSONError(o.message), "", o.ran)
       ELSE ToolResult(JSONValue(o.value), o.chart, o.ran)

-----------------------------------------------------------------------------
(* Remote tool gateway: MCPClient.ts, as far as the orchestrator uses it *)

\* getDefaultMCPConfigs
DefaultMCPConfigs ==
    <<[name |-> "products", adminOnly |-> FALSE],
      [name |-> "orders", adminOnly |-> FALSE],
      [name |-> "analytics", adminOnly |-> TRUE]>>

\* The tools each server process declares in its ListTools handler.
ProductsServerTools ==
    <<"search_products", "get_product_details", "get_product_reviews",
      "get_similar_products">>

OrdersServerTools ==
    <<"get_customer_orders", "get_order_details", "get_order_history",
      "get_customer_spending">>

AnalyticsServerTools ==
    <<"get_sales_dashboard", "get_sales_analytics", "get_top_products",
      "get_revenue_by_category", "get_inventory_status">>

\* const { tools } = await client.listTools()
ServerTools(srv) ==
    CASE srv = "products" -> ProductsServerTools
      [] srv = "orders" -> OrdersServerTools
      [] srv = "analytics" -> AnalyticsServerTools

ServerNames == {DefaultMCPConfigs[i].name : i \in 1..Len(DefaultMCPConfigs)}

\* toolToServer after connect() has run for the servers of cfgs, in order:
\* a later server overwrites an earlier mapping of the same tool name.
RECURSIVE RegisterTools(_, _)
RegisterTools(cfgs, t2s) ==
    IF cfgs = <<>> THEN t2s
    ELSE LET srv == Head(cfgs).name
             names == Range(ServerTools(srv))
             next == [n \in (DOMAIN t2s) \cup names |->
                         IF n \in names THEN srv ELSE t2s[n]]
         IN RegisterTools(Tail(cfgs), next)

EmptyMap == [n \in {} |-> ""]

\* MCPManager.callTool; the text a live server answers with is a token
\* sequence, and d = "fails" is a call the protocol client rejects.
callTool(conns, t2s, toolName, includeChart, d) ==
    IF toolName \notin DOMAIN t2s
    THEN Throw(<<"Unknown tool: ", toolName>>, <<>>)
    ELSE IF t2s[toolName] \notin conns
    THEN Throw(<<"Server not connected: ", t2s[toolName]>>, <<>>)
    ELSE IF d = "fails"
    THEN Throw(<<"call failed">>, <<t2s[toolName], toolName>>)
    ELSE Return(<<"text:", toolName, d>>, "", <<t2s[toolName], toolName>>)

\* MCPManager.executeToolCall
executeToolCall(conns, t2s, toolName, includeChart, d) ==
    LET o == callTool(conns, t2s, toolName, includeChart, d)
    IN IF o.threw THEN ToolResult(JSONError(o.message), "", o.ran)
       ELSE ToolResult(o.value, "", o.ran)

\* config.adminOnly of the connection named srv
adminOnly(srv) ==
    \E i \in 1..Len(DefaultMCPConfigs) :
        DefaultMCPConfigs[i].name = srv /\ DefaultMCPConfigs[i].adminOnly

\* The orders in which `for (const [name, connection] of this.connections)`
\* may go through the connected servers: the Map keeps insertion order, and
\* the insertions are made by connects that run concurrently.
ConnectionOrders(conns) ==
    {o \in SeqsUpTo(conns, Cardinality(conns)) :
        Len(o) = Cardinality(conns) /\ Range(o) = conns}

RECURSIVE getAllTools_NoAdminSkip(_, _)
getAllTools_NoAdminSkip(order, isAdmin) ==
    IF order = <<>> THEN <<>>
    ELSE LET tools == ServerTools(Head(order))
         IN [k \in 1..Len(tools) |-> Tool(tools[k])]
              \o getAllTools_NoAdminSkip(Tail(order), isAdmin)

\* MCPManager.getAllTools over the connections in the given order.
RECURSIVE getAllTools(_, _)
getAllTools(order, isAdmin) ==
    IF order = <<>> THEN <<>>
    ELSE IF adminOnly(Head(order)) /\ ~isAdmin
    THEN getAllTools(Tail(order), isAdmin)
    ELSE LET tools == ServerTools(Head(order))
         IN [k \in 1..Len(tools) |-> Tool(tools[k])] \o getAllTools(Tail(order), isAdmin)

NoOutcome == Return(<<>>, "", <<>>)

\* The gateway before its first use: no manager, nothing spawned.
GatewayUnused ==
    /\ mcpManager = "null"
    /\ cached = FALSE
    /\ connPc = [s \in ServerNames |-> "none"]
    /\ procs = [s \in ServerNames |-> "none"]
    /\ closeTried = {}
    /\ discPc = "idle"
    /\ discVisited = {}
    /\ callOutcome = NoOutcome
    /\ servedBefore = {}
    /\ listedConns = {}

\* The gateway as a turn of MCPChatService finds it once getMCPManager has
\* resolved; ChatService never touches it.
GatewayConnected ==
    IF service = "MCPChatService"
    THEN /\ mcpManager = "manager"
         /\ cached = TRUE
         /\ connPc = [s \in ServerNames |-> "done"]
         /\ procs = [s \in ServerNames |-> "running"]
         /\ closeTried = {}
         /\ discPc = "idle"
         /\ discVisited = {}
         /\ callOutcome = NoOutcome
         /\ servedBefore = {}
         /\ listedConns = {}
    ELSE GatewayUnused

-----------------------------------------------------------------------------
(* Messages and stream chunks: llm/types.ts *)

NoId == <<>>
NoToolCall == [id |-> NoId, name |-> "", arguments |-> "undefined"]

Message(r, c, id, tcs) == [role |-> r, content |-> c, toolCallId |-> id, toolCalls |-> tcs]

Chunk(t, c, tc, ch) == [type |-> t, content |-> c, toolCall |-> tc, chart |-> ch]
TextChunk(c) == Chunk("text", c, NoToolCall, "")
ToolCallChunk(tc) == Chunk("tool_call", <<>>, tc, "")
ToolResultChunk(tc, c) == Chunk("tool_result", c, tc, "")
ChartChunk(ch) == Chunk("chart", <<>>, NoToolCall, ch)
DoneChunk == Chunk("done", <<>>, NoToolCall, "")

ToolMessage_NoId(c, toolCall) == Message("tool", c, NoId, <<>>)

\* { role: 'tool', content: result.content, toolCallId: toolCall.id }
ToolMessage(c, toolCall) == Message("tool", c, toolCall.id, <<>>)

ApologyText ==
    <<"I apologize, but I encountered an issue processing your request.">>

-----------------------------------------------------------------------------
(* Language-model providers.  What the backend sends for one request is a   *)
(* raw stream: a sequence of items, each carrying a piece of text and/or    *)
(* function calls.                                                          *)

Item(t, cs) == [text |-> t, calls |-> cs]
Call(n, a) == [name |-> n, arguments |-> a]

\* State of one provider request while its stream is consumed.
Acc0 == [content |-> <<>>, toolCalls |-> <<>>, chunks |-> <<>>]

\* GeminiProvider.chatStream, the loop over chunk.functionCalls()
RECURSIVE GeminiCalls(_, _, _)
GeminiCalls(calls, now, acc) ==
    IF calls = <<>> THEN acc
    ELSE LET toolCall == [id |-> <<"gemini", now, Len(acc.toolCalls)>>,
                          name |-> Head(calls).name,
                          arguments |-> Head(calls).arguments]
         IN GeminiCalls(Tail(calls), now,
                [acc EXCEPT !.toolCalls = Append(@, toolCall),
                            !.chunks = Append(@, ToolCallChunk(toolCall))])

\* GeminiProvider.chatStream, the loop over result.stream
RECURSIVE GeminiConsume(_, _, _)
GeminiConsume(raw, now, acc) ==
    IF raw = <<>> THEN acc
    ELSE LET item == Head(raw)
             withText == IF item.text # <<>>
                         THEN [acc EXCEPT !.content = @ \o item.text,
                                          !.chunks = Append(@, TextChunk(item.text))]
                         ELSE acc
         IN GeminiConsume(Tail(raw), now, GeminiCalls(item.calls, now, withText))

\* One run of the operation GeminiProvider.chatStream hands to withRetry:
\* the chunks passed to onChunk are appended to the caller's array `chunks`.
GeminiOperation(attempt, now, chunks) ==
    LET acc == GeminiConsume(attempt.raw, now, [Acc0 EXCEPT !.chunks = chunks])
    IN IF attempt.failure = "none"
       THEN [ok |-> TRUE, chunks |-> Append(acc.chunks, DoneChunk),
             message |-> Message("assistant", acc.content, NoId, acc.toolCalls)]
       ELSE [ok |-> FALSE, chunks |-> acc.chunks,
             message |-> Message("assistant", <<>>, NoId, <<>>)]

\* GeminiProvider.withRetry around chatStream: attempts[i] is what the
\* backend does on attempt i-1.
RECURSIVE GeminiChatStream(_, _, _, _)
GeminiChatStream(attempts, i, now, chunks) ==
    LET r == GeminiOperation(attempts[i], now, chunks)
    IN IF r.ok THEN r
       ELSE IF attempts[i].failure = "rate" /\ i - 1 < MAX_RETRIES - 1 /\ i < Len(attempts)
       THEN GeminiChatStream(attempts, i + 1, now, r.chunks)
       ELSE r

\* OpenAIProvider.chatStream, the loop over the stream: text deltas go to
\* onChunk at once, tool-call fragments are buffered by index.
RECURSIVE OpenAIConsume(_, _, _)
OpenAIConsume(raw, now, acc) ==
    IF raw = <<>> THEN acc
    ELSE LET item == Head(raw)
             withText == IF item.text # <<>>
                         THEN [acc EXCEPT !.content = @ \o item.text,
                                          !.chunks = Append(@, TextChunk(item.text))]
                         ELSE acc
             buffers == [k \in 1..Len(item.calls) |->
                            [id |-> <<"call", now, Len(withText.toolCalls) + k - 1>>,
                             name |-> item.calls[k].name,
                             arguments |-> item.calls[k].arguments]]
         IN OpenAIConsume(Tail(raw), now, [withText EXCEPT !.toolCalls = @ \o buffers])

\* OpenAIProvider.chatStream: after the stream ends the completed tool calls
\* are announced, then `done`.
OpenAIChatStream(raw, now) ==
    LET acc == OpenAIConsume(raw, now, Acc0)
        complete == SelectSeq(acc.toolCalls, LAMBDA b : b.id # NoId /\ b.name # "")
    IN [ok |-> TRUE,
        chunks |-> acc.chunks \o [k \in 1..Len(complete) |-> ToolCallChunk(complete[k])]
                     \o <<DoneChunk>>,
        message |-> Message("assistant", acc.content, NoId, complete)]

ProviderFailure == [ok |-> FALSE, chunks |-> <<>>, message |-> Message("assistant", <<>>, NoId, <<>>)]

\* GeminiProvider.chat and OpenAIProvider.chat: the whole response at once.
RECURSIVE AllCalls(_)
AllCalls(raw) == IF raw = <<>> THEN <<>> ELSE Head(raw).calls \o AllCalls(Tail(raw))

RECURSIVE AllText(_)
AllText(raw) == IF raw = <<>> THEN <<>> ELSE Head(raw).text \o AllText(Tail(raw))

ProviderChat(prov, raw, now) ==
    LET calls == AllCalls(raw)
        prefix == IF prov = "gemini" THEN "gemini" ELSE "call"
        toolCalls == [k \in 1..Len(calls) |->
                         [id |-> <<prefix, now, k - 1>>,
                          name |-> calls[k].name,
                          arguments |-> calls[k].arguments]]
    IN [ok |-> TRUE, chunks |-> <<>>,
        message |-> Message("assistant", AllText(raw), NoId, toolCalls)]

-----------------------------------------------------------------------------
(* What the backend may do in answer to one request of this turn *)

Min(a, b) == IF a < b THEN a ELSE b

TurnItems == {Item(<<"t">>, <<>>), Item(<<>>, <<Call(turnTool, turnArgs)>>)}

RawStreams(left) == SeqsUpTo(TurnItems, Min(MaxStreamLen, left))

Attempt(raw, failure) == [raw |-> raw, failure |-> failure]

\* Attempts that end in a rate-limit failure and are retried.
RetriedAttempts(left) ==
    {Attempt(raw, "rate") : raw \in SeqsUpTo(TurnItems, Min(MaxRetriedItems, left))}

RECURSIVE ItemsOf(_)
ItemsOf(attempts) ==
    IF attempts = <<>> THEN 0 ELSE Len(Head(attempts).raw) + ItemsOf(Tail(attempts))

\* Sequences of attempts of one withRetry call: every attempt but the last
\* is rate-limited, and a rate-limited last attempt is the MAX_RETRIES-th.
GeminiAttempts(left) ==
    LET retried == SeqsUpTo(RetriedAttempts(left), MAX_RETRIES - 1)
        final == {Attempt(raw, "none") : raw \in RawStreams(left)}
                   \cup {Attempt(<<>>, "other"), Attempt(<<>>, "rate")}
        all == {Append(pre, f) : pre \in retried, f \in final}
    IN {as \in all : /\ ItemsOf(as) <= left
                     /\ Last(as).failure = "rate" => Len(as) = MAX_RETRIES}

\* Results of this.llm.chatStream(messages, tools, onChunk): whether it
\* resolved, the array `chunks` filled by the callback, the Message, and
\* the number of items the backend produced.
ChatStreamOutcomes(prov, now, left) ==
    IF prov = "gemini"
    THEN {GeminiChatStream(as, 1, now, <<>>) @@ [used |-> ItemsOf(as)] :
              as \in GeminiAttempts(left)}
    ELSE {OpenAIChatStream(raw, now) @@ [used |-> Len(raw)] : raw \in RawStreams(left)}
           \cup {ProviderFailure @@ [used |-> 0]}

\* Results of this.llm.chat(messages, tools).
ChatOutcomes(prov, now, left) ==
    {ProviderChat(prov, raw, now) @@ [used |-> Len(raw)] : raw \in RawStreams(left)}
      \cup {ProviderFailure @@ [used |-> 0]}

-----------------------------------------------------------------------------
(* The parts of the program a specification leaves at rest *)

NoError == [id |-> 0, status |-> 0, message |-> <<>>]

\* No withRetry call is under way.
RetryIdle ==
    /\ retryPc = "idle"
    /\ retryAttempt = 0
    /\ opRuns = 0
    /\ opErrors = <<>>
    /\ retryDelay = 0
    /\ elapsed = 0
    /\ sleeps = <<>>
    /\ thrown = NoError

\* const conversationStore = new Map<number, Message[]>() and no request.
RoutesIdle ==
    /\ conversationStore = 0
    /\ arrays = <<>>
    /\ req = <<>>
    /\ requests = 0

NoSearch == [query |-> <<>>, topK |-> 0, filter |-> {}]

\* An empty embeddings table that nobody has queried.
StoreIdle ==
    /\ storePc = "idle"
    /\ rows = <<>>
    /\ searchArgs = NoSearch
    /\ results = <<>>
    /\ written = <<>>
    /\ prior = <<>>

-----------------------------------------------------------------------------
(* The orchestrators: ChatService.ts and MCPChatService.ts *)

NoMessage == Message("", <<>>, NoId, <<>>)
NoResult == ToolResult(<<>>, "", <<>>)

\* getSystemPrompt(context): the admin role gets the extended text.
getSystemPrompt(r) ==
    IF r = "admin" THEN <<"base prompt", "admin prompt">> ELSE <<"base prompt">>

UserMessage == <<"user message">>

\* [system, ...conversationHistory, user]
InitialTranscript(r, history) ==
    <<Message("system", getSystemPrompt(r), NoId, <<>>)>> \o history
      \o <<Message("user", UserMessage, NoId, <<>>)>>

\* The environments a turn is explored in: the tool the model asks for,
\* the includeChart argument it passes and the state of the data behind it.
TurnEnvs ==
    {[tool |-> "get_product_details", args |-> "undefined", db |-> "rows"],
     [tool |-> "get_product_details", args |-> "undefined", db |-> "fails"],
     [tool |-> "get_top_products", args |-> "undefined", db |-> "rows"],
     [tool |-> "get_top_products", args |-> "true", db |-> "rows"],
     [tool |-> "no_such_tool", args |-> "undefined", db |-> "rows"]}

\* State shared by the entry of chat and chatStream.
InitTurn(startPc) ==
    /\ service \in Services
    /\ provider \in Providers
    /\ role \in Roles
    /\ \E e \in TurnEnvs : turnTool = e.tool /\ turnArgs = e.args /\ db = e.db
    /\ connections = IF service = "MCPChatService" THEN ServerNames ELSE {}
    /\ toolToServer = IF service = "MCPChatService"
                      THEN RegisterTools(DefaultMCPConfigs, EmptyMap) ELSE EmptyMap
    /\ pc = startPc
    /\ iterations = 0
    /\ hasToolCalls = TRUE
    /\ messages = InitialTranscript(role, <<>>)
    /\ response = NoMessage
    /\ callIdx = 0
    /\ out = <<>>
    /\ outCall = <<>>
    /\ result = NoMessage
    /\ toolResult = NoResult
    /\ llmCalls = 0
    /\ queries = <<>>
    /\ itemsUsed = 0
    /\ toolList = IF service = "ChatService" THEN getToolsForRole(role) ELSE <<>>
    /\ GatewayConnected
    /\ RetryIdle /\ RoutesIdle /\ StoreIdle

turnConfig == <<service, provider, role, turnTool, turnArgs, db, connections, toolToServer,
                toolList, gatewayVars, retryVars, routeVars, storeVars>>

\* yield: append chunks, all belonging to provider call n.
Yield(cs, n) ==
    /\ out' = out \o cs
    /\ outCall' = outCall \o [k \in 1..Len(cs) |-> n]

TextOnly(cs) == SelectSeq(cs, LAMBDA c : c.type = "text")

\* while (hasToolCalls && iterations < MAX_TOOL_ITERATIONS)
StreamLoopGuard_OffByOne(h, it) == h /\ it <= MAX_TOOL_ITERATIONS

StreamLoopGuard(h, it) == h /\ it < MAX_TOOL_ITERATIONS

\* while (iterations < MAX_TOOL_ITERATIONS)
MCPLoopGuard(it) == it < MAX_TOOL_ITERATIONS

\* ChatService.chatStream, one pass of the loop body up to the tool calls.
CSStreamIterate ==
    /\ service = "ChatService"
    /\ pc = "loop"
    /\ StreamLoopGuard(hasToolCalls, iterations)
    /\ iterations' = iterations + 1
    /\ llmCalls' = llmCalls + 1
    /\ \E o \in ChatStreamOutcomes(provider, llmCalls + 1, MaxTurnItems - itemsUsed) :
         /\ itemsUsed' = itemsUsed + o.used
         /\ IF ~o.ok
            THEN /\ pc' = "threw"
                 /\ hasToolCalls' = FALSE
                 /\ UNCHANGED <<messages, response, callIdx, out, outCall>>
            ELSE /\ Yield(TextOnly(o.chunks), llmCalls + 1)
                 /\ response' = o.message
                 /\ IF Len(o.message.toolCalls) > 0
                    THEN /\ hasToolCalls' = TRUE
                         /\ messages' = Append(messages, o.message)
                         /\ callIdx' = 1
                         /\ pc' = "dispatch"
                    ELSE /\ hasToolCalls' = FALSE
                         /\ UNCHANGED <<messages, callIdx>>
                         /\ pc' = "loop"
    /\ UNCHANGED <<turnConfig, result, toolResult, queries>>

\* ChatService.chatStream, one pass of `for (const toolCall of response.toolCalls)`.
CSStreamDispatch ==
    /\ service = "ChatService"
    /\ pc = "dispatch"
    /\ LET toolCall == response.toolCalls[callIdx]
           r == executeTool(toolCall.name, toolCall.arguments, role, db)
       IN /\ toolResult' = r
          /\ queries' = queries \o r.ran
          /\ IF r.threw
             THEN /\ Yield(<<ToolCallChunk(toolCall)>>, llmCalls)
                  /\ pc' = "threw"
                  /\ UNCHANGED <<messages, callIdx>>
             ELSE /\ Yield(<<ToolCallChunk(toolCall)>>
                             \o (IF r.chart # "" THEN <<ChartChunk(r.chart)>> ELSE <<>>),
                           llmCalls)
                  /\ messages' = Append(messages, ToolMessage(r.content, toolCall))
                  /\ IF callIdx < Len(response.toolCalls)
                     THEN callIdx' = callIdx + 1 /\ pc' = "dispatch"
                     ELSE callIdx' = 0 /\ pc' = "loop"
    /\ UNCHANGED <<turnConfig, iterations, hasToolCalls, response, result, llmCalls, itemsUsed>>

\* ChatService.chatStream, after the loop: yield { type: 'done' }.
CSStreamDone ==
    /\ service = "ChatService"
    /\ pc = "loop"
    /\ ~StreamLoopGuard(hasToolCalls, iterations)
    /\ Yield(<<DoneChunk>>, 0)
    /\ pc' = "returned"
    /\ UNCHANGED <<turnConfig, iterations, hasToolCalls, messages, response, callIdx,
                   result, toolResult, llmCalls, queries, itemsUsed>>

\* MCPChatService.chatStream, one pass of the loop body up to the tool calls.
MCPStreamIterate ==
    /\ service = "MCPChatService"
    /\ pc = "loop"
    /\ MCPLoopGuard(iterations)
    /\ iterations' = iterations + 1
    /\ llmCalls' = llmCalls + 1
    /\ \E o \in ChatStreamOutcomes(provider, llmCalls + 1, MaxTurnItems - itemsUsed) :
         /\ itemsUsed' = itemsUsed + o.used
         /\ IF ~o.ok
            THEN /\ pc' = "threw"
                 /\ UNCHANGED <<messages, response, callIdx, out, outCall>>
            ELSE /\ response' = o.message
                 /\ IF Len(o.message.toolCalls) = 0
                    THEN /\ out' = out \o o.chunks \o <<DoneChunk>>
                         /\ outCall' = outCall \o [k \in 1..Len(o.chunks) |-> llmCalls + 1] \o <<0>>
                         /\ pc' = "returned"
                         /\ UNCHANGED <<messages, callIdx>>
                    ELSE /\ Yield(o.chunks, llmCalls + 1)
                         /\ messages' = Append(messages, o.message)
                         /\ callIdx' = 1
                         /\ pc' = "dispatch"
    /\ UNCHANGED <<turnConfig, hasToolCalls, result, toolResult, queries>>

\* MCPChatService.chatStream, one pass of `for (const toolCall of response.toolCalls)`.
MCPStreamDispatch ==
    /\ service = "MCPChatService"
    /\ pc = "dispatch"
    /\ LET toolCall == response.toolCalls[callIdx]
           r == executeToolCall(connections, toolToServer, toolCall.name, toolCall.arguments, db)
       IN /\ toolResult' = r
          /\ queries' = queries \o r.ran
          /\ IF r.threw
             THEN /\ pc' = "threw"
                  /\ UNCHANGED <<messages, callIdx, out, outCall>>
             ELSE /\ Yield(<<ToolResultChunk(toolCall, r.content)>>, llmCalls)
                  /\ messages' = Append(messages, ToolMessage(r.content, toolCall))
                  /\ IF callIdx < Len(response.toolCalls)
                     THEN callIdx' = callIdx + 1 /\ pc' = "dispatch"
                     ELSE callIdx' = 0 /\ pc' = "loop"
    /\ UNCHANGED <<turnConfig, iterations, hasToolCalls, response, result, llmCalls, itemsUsed>>

\* MCPChatService.chatStream, after the loop: yield { type: 'done' }.
MCPStreamDone ==
    /\ service = "MCPChatService"
    /\ pc = "loop"
    /\ ~MCPLoopGuard(iterations)
    /\ Yield(<<DoneChunk>>, 0)
    /\ pc' = "returned"
    /\ UNCHANGED <<turnConfig, iterations, hasToolCalls, messages, response, callIdx,
                   result, toolResult, llmCalls, queries, itemsUsed>>

Init == InitTurn("loop")

Next ==
    \/ CSStreamIterate
    \/ CSStreamDispatch
    \/ CSStreamDone
    \/ MCPStreamIterate
    \/ MCPStreamDispatch
    \/ MCPStreamDone

Spec == Init /\ [][Next]_vars


-----------------------------------------------------------------------------
(* The non-streaming operations *)

\* while (response.toolCalls && response.toolCalls.length > 0 && iterations < MAX_TOOL_ITERATIONS)
ChatLoopGuard(resp, it) == Len(resp.toolCalls) > 0 /\ it < MAX_TOOL_ITERATIONS

\* ChatService.chat: `let response = await this.llm.chat(messages, tools)`
\* before the loop.
CSChatFirst ==
    /\ service = "ChatService"
    /\ pc = "start"
    /\ llmCalls' = llmCalls + 1
    /\ \E o \in ChatOutcomes(provider, llmCalls + 1, MaxTurnItems - itemsUsed) :
         /\ itemsUsed' = itemsUsed + o.used
         /\ IF o.ok THEN response' = o.message /\ pc' = "loop"
                    ELSE UNCHANGED response /\ pc' = "threw"
    /\ UNCHANGED <<turnConfig, iterations, hasToolCalls, messages, callIdx, out, outCall,
                   result, toolResult, queries>>

\* ChatService.chat: entering the loop body.
CSChatEnter ==
    /\ service = "ChatService"
    /\ pc = "loop"
    /\ ChatLoopGuard(response, iterations)
    /\ iterations' = iterations + 1
    /\ messages' = Append(messages, response)
    /\ callIdx' = 1
    /\ pc' = "dispatch"
    /\ UNCHANGED <<turnConfig, hasToolCalls, response, out, outCall, result, toolResult,
                   llmCalls, queries, itemsUsed>>

\* ChatService.chat: one pass of `for (const toolCall of response.toolCalls)`.
CSChatDispatch ==
    /\ service = "ChatService"
    /\ pc = "dispatch"
    /\ LET toolCall == response.toolCalls[callIdx]
           r == executeTool(toolCall.name, toolCall.arguments, role, db)
       IN /\ toolResult' = r
          /\ queries' = queries \o r.ran
          /\ IF r.threw
             THEN pc' = "threw" /\ UNCHANGED <<messages, callIdx>>
             ELSE /\ messages' = Append(messages, ToolMessage(r.content, toolCall))
                  /\ IF callIdx < Len(response.toolCalls)
                     THEN callIdx' = callIdx + 1 /\ pc' = "dispatch"
                     ELSE callIdx' = 0 /\ pc' = "again"
    /\ UNCHANGED <<turnConfig, iterations, hasToolCalls, response, out, outCall, result,
                   llmCalls, itemsUsed>>

\* ChatService.chat: `response = await this.llm.chat(messages, tools)` at
\* the end of the loop body.
CSChatAgain ==
    /\ service = "ChatService"
    /\ pc = "again"
    /\ llmCalls' = llmCalls + 1
    /\ \E o \in ChatOutcomes(provider, llmCalls + 1, MaxTurnItems - itemsUsed) :
         /\ itemsUsed' = itemsUsed + o.used
         /\ IF o.ok THEN response' = o.message /\ pc' = "loop"
                    ELSE UNCHANGED response /\ pc' = "threw"
    /\ UNCHANGED <<turnConfig, iterations, hasToolCalls, messages, callIdx, out, outCall,
                   result, toolResult, queries>>

\* ChatService.chat: `return response`.
CSChatReturn ==
    /\ service = "ChatService"
    /\ pc = "loop"
    /\ ~ChatLoopGuard(response, iterations)
    /\ result' = response
    /\ pc' = "returned"
    /\ UNCHANGED <<turnConfig, iterations, hasToolCalls, messages, response, callIdx, out,
                   outCall, toolResult, llmCalls, queries, itemsUsed>>

\* MCPChatService.chat: one pass of the loop body up to the tool calls.
MCPChatIterate ==
    /\ service = "MCPChatService"
    /\ pc = "loop"
    /\ MCPLoopGuard(iterations)
    /\ iterations' = iterations + 1
    /\ llmCalls' = llmCalls + 1
    /\ \E o \in ChatOutcomes(provider, llmCalls + 1, MaxTurnItems - itemsUsed) :
         /\ itemsUsed' = itemsUsed + o.used
         /\ IF ~o.ok
            THEN pc' = "threw" /\ UNCHANGED <<messages, response, callIdx, result>>
            ELSE /\ response' = o.message
                 /\ IF Len(o.message.toolCalls) = 0
                    THEN /\ result' = o.message
                         /\ pc' = "returned"
                         /\ UNCHANGED <<messages, callIdx>>
                    ELSE /\ messages' = Append(messages, o.message)
                         /\ callIdx' = 1
                         /\ pc' = "dispatch"
                         /\ UNCHANGED result
    /\ UNCHANGED <<turnConfig, hasToolCalls, out, outCall, toolResult, queries>>

\* MCPChatService.chat: one pass of `for (const toolCall of response.toolCalls)`.
MCPChatDispatch ==
    /\ service = "MCPChatService"
    /\ pc = "dispatch"
    /\ LET toolCall == response.toolCalls[callIdx]
           r == executeToolCall(connections, toolToServer, toolCall.name, toolCall.arguments, db)
       IN /\ toolResult' = r
          /\ queries' = queries \o r.ran
          /\ IF r.threw
             THEN pc' = "threw" /\ UNCHANGED <<messages, callIdx>>
             ELSE /\ messages' = Append(messages, ToolMessage(r.content, toolCall))
                  /\ IF callIdx < Len(response.toolCalls)
                     THEN callIdx' = callIdx + 1 /\ pc' = "dispatch"
                     ELSE callIdx' = 0 /\ pc' = "loop"
    /\ UNCHANGED <<turnConfig, iterations, hasToolCalls, response, out, outCall, result,
                   llmCalls, itemsUsed>>

\* MCPChatService.chat: the apology returned after the loop.
MCPChatGiveUp ==
    /\ service = "MCPChatService"
    /\ pc = "loop"
    /\ ~MCPLoopGuard(iterations)
    /\ result' = Message("assistant", ApologyText, NoId, <<>>)
    /\ pc' = "returned"
    /\ UNCHANGED <<turnConfig, iterations, hasToolCalls, messages, response, callIdx, out,
                   outCall, toolResult, llmCalls, queries, itemsUsed>>

InitChat ==
    /\ InitTurn("loop") \/ InitTurn("start")
    /\ pc = IF service = "ChatService" THEN "start" ELSE "loop"

NextChat ==
    \/ CSChatFirst
    \/ CSChatEnter
    \/ CSChatDispatch
    \/ CSChatAgain
    \/ CSChatReturn
    \/ MCPChatIterate
    \/ MCPChatDispatch
    \/ MCPChatGiveUp

SpecChat == InitChat /\ [][NextChat]_vars

-----------------------------------------------------------------------------
(* The tool registry on its own: any tool name, arguments, role and data *)

ToolNames ==
    Range(CustomerToolNames) \cup Range(AdminOnlyToolNames) \cup {"no_such_tool"}

InitTool ==
    /\ service = "ChatService"
    /\ provider = "openai"
    /\ role \in Roles
    /\ turnTool \in ToolNames
    /\ turnArgs \in ArgStates
    /\ db \in DbStates
    /\ connections = {}
    /\ toolToServer = EmptyMap
    /\ pc = "idle"
    /\ iterations = 0
    /\ hasToolCalls = FALSE
    /\ messages = <<>>
    /\ response = NoMessage
    /\ callIdx = 0
    /\ out = <<>>
    /\ outCall = <<>>
    /\ result = NoMessage
    /\ toolResult = NoResult
    /\ llmCalls = 0
    /\ queries = <<>>
    /\ itemsUsed = 0
    /\ toolList = <<>>
    /\ GatewayUnused
    /\ RetryIdle /\ RoutesIdle /\ StoreIdle

\* A caller awaits executeTool(toolName, args, context).
ExecuteTool ==
    /\ pc = "idle"
    /\ LET r == executeTool(turnTool, turnArgs, role, db)
       IN /\ toolResult' = r
          /\ queries' = queries \o r.ran
          /\ pc' = IF r.threw THEN "threw" ELSE "executed"
    /\ UNCHANGED <<service, provider, role, turnTool, turnArgs, db, connections, toolToServer,
                   iterations, hasToolCalls, messages, response, callIdx, out, outCall,
                   result, llmCalls, itemsUsed, toolList, gatewayVars, retryVars, routeVars,
                   storeVars>>

\* A caller asks getToolsForRole(context.userRole).
ListTools ==
    /\ pc = "idle"
    /\ toolList' = getToolsForRole(role)
    /\ pc' = "listed"
    /\ UNCHANGED <<service, provider, role, turnTool, turnArgs, db, connections, toolToServer,
                   iterations, hasToolCalls, messages, response, callIdx, out, outCall,
                   result, toolResult, llmCalls, queries, itemsUsed, gatewayVars, retryVars,
                   routeVars, storeVars>>

NextTool == ExecuteTool \/ ListTools

SpecTool == InitTool /\ [][NextTool]_vars

-----------------------------------------------------------------------------
(* The remote tool gateway over its life: getMCPManager, connectAll, the     *)
(* turns of MCPChatService that use it, and shutdownMCP                      *)

gatewayFrame == <<service, provider, role, turnTool, turnArgs, db, iterations, hasToolCalls,
                  messages, response, callIdx, out, outCall, result, llmCalls, itemsUsed,
                  retryVars, routeVars, storeVars>>

\* The turns the gateway is explored with: the caller's role, the tool the
\* model asks for and whether the server's answer to the call arrives.
GatewayEnvs ==
    {[role |-> "customer", tool |-> "search_products", db |-> "rows"],
     [role |-> "customer", tool |-> "get_sales_dashboard", db |-> "rows"],
     [role |-> "admin", tool |-> "get_sales_dashboard", db |-> "fails"],
     [role |-> "admin", tool |-> "no_such_tool", db |-> "rows"]}

InitMCP ==
    /\ service = "MCPChatService"
    /\ provider = "openai"
    /\ \E e \in GatewayEnvs : role = e.role /\ turnTool = e.tool /\ db = e.db
    /\ turnArgs = "undefined"
    /\ connections = {}
    /\ toolToServer = EmptyMap
    /\ pc = "start"
    /\ iterations = 0
    /\ hasToolCalls = FALSE
    /\ messages = <<>>
    /\ response = NoMessage
    /\ callIdx = 0
    /\ out = <<>>
    /\ outCall = <<>>
    /\ result = NoMessage
    /\ toolResult = NoResult
    /\ llmCalls = 0
    /\ queries = <<>>
    /\ itemsUsed = 0
    /\ toolList = <<>>
    /\ GatewayUnused
    /\ RetryIdle /\ RoutesIdle /\ StoreIdle

\* MCPChatService.chat / chatStream, `await this.ensureMCPConnected()`:
\* the cached manager, or getMCPManager(), which hands out the singleton
\* when it is set and otherwise sets it and starts connectAll.  connectAll
\* calls connect(config) for every config; each runs up to its first await,
\* so every spawn() has been tried when connectAll starts waiting.
EnsureMCPConnected ==
    /\ pc = "start"
    /\ IF cached
       THEN /\ pc' = "listing"
            /\ UNCHANGED <<mcpManager, cached, connPc, procs>>
       ELSE IF mcpManager = "manager"
       THEN /\ cached' = TRUE
            /\ pc' = "listing"
            /\ UNCHANGED <<mcpManager, connPc, procs>>
       ELSE /\ discPc = "idle"
            /\ mcpManager' = "manager"
            /\ \E spawned \in SUBSET ServerNames :
                 /\ connPc' = [s \in ServerNames |->
                                  IF s \in spawned THEN "handshaking" ELSE "spawnFailed"]
                 /\ procs' = [s \in ServerNames |->
                                 IF s \in spawned THEN "running" ELSE "none"]
            /\ pc' = "awaitManager"
            /\ UNCHANGED cached
    /\ UNCHANGED <<gatewayFrame, connections, toolToServer, toolResult, queries, toolList,
                   closeTried, discPc, discVisited, callOutcome, servedBefore, listedConns>>

\* connect(config), `await client.connect(transport)` settles, and on
\* success `this.connections.set(config.name, connection)`.
Handshake(s) ==
    /\ connPc[s] = "handshaking"
    /\ \E ok \in BOOLEAN :
         IF ok
         THEN /\ connections' = connections \cup {s}
              /\ connPc' = [connPc EXCEPT ![s] = "listing"]
         ELSE /\ connPc' = [connPc EXCEPT ![s] = "handshakeFailed"]
              /\ UNCHANGED connections
    /\ UNCHANGED <<gatewayFrame, toolToServer, pc, toolResult, queries, toolList, mcpManager,
                   cached, procs, closeTried, discPc, discVisited, callOutcome, servedBefore,
                   listedConns>>

\* connect(config), `await client.listTools()` settles, and on success the
\* loop `this.toolToServer.set(tool.name, config.name)`.  A client that
\* disconnectAll has closed rejects the request.
RegisterServer(s) ==
    /\ connPc[s] = "listing"
    /\ \E ok \in BOOLEAN :
         IF ok /\ procs[s] # "killed"
         THEN /\ toolToServer' = RegisterTools(<<[name |-> s]>>, toolToServer)
              /\ connPc' = [connPc EXCEPT ![s] = "done"]
         ELSE /\ connPc' = [connPc EXCEPT ![s] = "listFailed"]
              /\ UNCHANGED toolToServer
    /\ UNCHANGED <<gatewayFrame, connections, pc, toolResult, queries, toolList, mcpManager,
                   cached, procs, closeTried, discPc, discVisited, callOutcome, servedBefore,
                   listedConns>>

ConnectFailures == {"spawnFailed", "handshakeFailed", "listFailed"}

\* Promise.all rejects with the first connect that fails: getMCPManager,
\* ensureMCPConnected and the chat or chatStream awaiting it all reject.
ConnectAllRejected ==
    /\ pc = "awaitManager"
    /\ \E s \in ServerNames : connPc[s] \in ConnectFailures
    /\ pc' = "threw"
    /\ UNCHANGED <<gatewayFrame, connections, toolToServer, toolResult, queries, toolList,
                   gatewayVars>>

\* Promise.all resolves: `this.mcpManager = await getMCPManager()`.
ConnectAllResolved ==
    /\ pc = "awaitManager"
    /\ \A s \in ServerNames : connPc[s] = "done"
    /\ cached' = TRUE
    /\ pc' = "listing"
    /\ UNCHANGED <<gatewayFrame, connections, toolToServer, toolResult, queries, toolList,
                   mcpManager, connPc, procs, closeTried, discPc, discVisited, callOutcome,
                   servedBefore, listedConns>>

\* `const tools = await mcp.getAllTools(context.userRole === 'admin')`; a
\* listTools request that fails rejects it.
GetAllTools ==
    /\ pc = "listing"
    /\ \E order \in ConnectionOrders(connections), ok \in BOOLEAN :
         IF ok \/ connections = {}
         THEN /\ toolList' = getAllTools(order, role = "admin")
              /\ listedConns' = connections
              /\ pc' = "ready"
         ELSE /\ pc' = "threw"
              /\ UNCHANGED <<toolList, listedConns>>
    /\ UNCHANGED <<gatewayFrame, connections, toolToServer, toolResult, queries, mcpManager,
                   cached, connPc, procs, closeTried, discPc, discVisited, callOutcome,
                   servedBefore>>

\* `const result = await mcp.executeToolCall(toolCall)` for a tool call of
\* the model.
GatewayExecuteToolCall ==
    /\ pc = "ready"
    /\ callOutcome' = callTool(connections, toolToServer, turnTool, turnArgs, db)
    /\ LET r == executeToolCall(connections, toolToServer, turnTool, turnArgs, db)
       IN /\ toolResult' = r
          /\ queries' = queries \o r.ran
          /\ pc' = IF r.threw THEN "threw" ELSE "called"
    /\ UNCHANGED <<gatewayFrame, connections, toolToServer, toolList, mcpManager, cached,
                   connPc, procs, closeTried, discPc, discVisited, servedBefore, listedConns>>

\* The turn is over and the next request of the user starts another one,
\* with fresh locals.
NextTurn ==
    /\ pc \in {"called", "threw"}
    /\ pc' = "start"
    /\ queries' = <<>>
    /\ toolList' = <<>>
    /\ toolResult' = NoResult
    /\ callOutcome' = NoOutcome
    /\ listedConns' = {}
    /\ UNCHANGED <<gatewayFrame, connections, toolToServer, mcpManager, cached, connPc, procs,
                   closeTried, discPc, discVisited, servedBefore>>

\* shutdownMCP: `await mcpManager.disconnectAll()` begins.
ShutdownMCP ==
    /\ mcpManager = "manager"
    /\ discPc = "idle"
    /\ discPc' = "running"
    /\ UNCHANGED <<gatewayFrame, connections, toolToServer, pc, toolResult, queries, toolList,
                   mcpManager, cached, connPc, procs, closeTried, discVisited, callOutcome,
                   servedBefore, listedConns>>

CloseOutcomes == {"closed", "fails", "hangs"}

\* disconnectAll, one pass of the loop over this.connections:
\* try { await connection.client.close(); connection.process.kill() } catch { log }
DisconnectOne ==
    /\ discPc = "running"
    /\ \E s \in connections \ discVisited, outcome \in CloseOutcomes :
         /\ closeTried' = closeTried \cup {s}
         /\ CASE outcome = "closed" ->
                   /\ procs' = [procs EXCEPT ![s] = "killed"]
                   /\ discVisited' = discVisited \cup {s}
                   /\ UNCHANGED discPc
              [] outcome = "fails" ->
                   /\ discVisited' = discVisited \cup {s}
                   /\ UNCHANGED <<procs, discPc>>
              [] outcome = "hangs" ->
                   /\ discPc' = "stuck"
                   /\ UNCHANGED <<procs, discVisited>>
    /\ UNCHANGED <<gatewayFrame, connections, toolToServer, pc, toolResult, queries, toolList,
                   mcpManager, cached, connPc, callOutcome, servedBefore, listedConns>>

\* disconnectAll after the loop: both maps are cleared; shutdownMCP then
\* sets the singleton to null.
DisconnectFinish ==
    /\ discPc = "running"
    /\ connections \ discVisited = {}
    /\ servedBefore' = DOMAIN toolToServer
    /\ connections' = {}
    /\ toolToServer' = EmptyMap
    /\ mcpManager' = "null"
    /\ discPc' = "returned"
    /\ UNCHANGED <<gatewayFrame, pc, toolResult, queries, toolList, cached, connPc, procs,
                   closeTried, discVisited, callOutcome, listedConns>>

NextMCP ==
    \/ EnsureMCPConnected
    \/ \E s \in ServerNames : Handshake(s)
    \/ \E s \in ServerNames : RegisterServer(s)
    \/ ConnectAllRejected
    \/ ConnectAllResolved
    \/ GetAllTools
    \/ GatewayExecuteToolCall
    \/ NextTurn
    \/ ShutdownMCP
    \/ DisconnectOne
    \/ DisconnectFinish

SpecMCP == InitMCP /\ [][NextMCP]_vars

-----------------------------------------------------------------------------
(* The retry policy: GeminiProvider.withRetry.  An error message is a        *)
(* sequence of words; the words that are numbers are written in decimal.     *)

\* No turn is under way and the gateway has not been used.
CoreIdle ==
    /\ service = "ChatService"
    /\ provider = "gemini"
    /\ role = "customer"
    /\ turnTool = "no_such_tool"
    /\ turnArgs = "undefined"
    /\ db = "rows"
    /\ connections = {}
    /\ toolToServer = EmptyMap
    /\ pc = "idle"
    /\ iterations = 0
    /\ hasToolCalls = FALSE
    /\ messages = <<>>
    /\ response = NoMessage
    /\ callIdx = 0
    /\ out = <<>>
    /\ outCall = <<>>
    /\ result = NoMessage
    /\ toolResult = NoResult
    /\ llmCalls = 0
    /\ queries = <<>>
    /\ itemsUsed = 0
    /\ toolList = <<>>
    /\ GatewayUnused

INITIAL_RETRY_DELAY_MS == 1000

\* The words \d+(?:\.\d+)? matches, with parseFloat of each in tenths.
NumberWords == {"0", "1", "1.5", "2", "3", "30", "500"}

parseFloat10(w) ==
    CASE w = "0" -> 0
      [] w = "1" -> 10
      [] w = "1.5" -> 15
      [] w = "2" -> 20
      [] w = "3" -> 30
      [] w = "30" -> 300
      [] w = "500" -> 5000

\* The group (ms|s|m|h|seconds?|minutes?|hours?)? applied to the word that
\* follows the number, lower-cased: the alternatives are tried in order and
\* nothing has to follow the group, so the first alternative that is a
\* prefix of the word is what the group captures; "" when none is.
UnitCapture(w) ==
    CASE w \in {"ms"} -> "ms"
      [] w \in {"s", "seconds"} -> "s"
      [] w \in {"m", "minutes", "milliseconds"} -> "m"
      [] w \in {"h", "hours"} -> "h"
      [] OTHER -> ""

\* error?.message?.match(/retry in (\d+...)\s*(...)?/i): the leftmost place
\* where "retry in " is followed by a number.
RetryMatch(msg) ==
    LET places == {i \in 1..Len(msg) - 1 :
                      msg[i] \in {"retry in", "Retry in"} /\ msg[i + 1] \in NumberWords}
    IN IF places = {} THEN [found |-> FALSE, value10 |-> 0, unit |-> ""]
       ELSE LET i == CHOOSE j \in places : \A k \in places : j <= k
            IN [found |-> TRUE,
                value10 |-> parseFloat10(msg[i + 1]),
                unit |-> IF i + 2 <= Len(msg) THEN UnitCapture(msg[i + 2]) ELSE ""]

\* Math.ceil(value) for a value given in tenths.
CeilTenths(value10) == (value10 + 9) \div 10

RECURSIVE Pow2(_)
Pow2(n) == IF n = 0 THEN 1 ELSE 2 * Pow2(n - 1)

\* error?.status === 429 || message includes '429' | 'Too Many Requests' | 'quota'
isRateLimited(error) ==
    \/ error.status = 429
    \/ \E i \in 1..Len(error.message) :
          error.message[i] \in {"429", "Too Many Requests", "quota"}

RetryDelay_NoBuffer(error, att) ==
    LET m == RetryMatch(error.message)
    IN IF ~m.found THEN INITIAL_RETRY_DELAY_MS * Pow2(att)
       ELSE CASE m.unit = "h" -> m.value10 * 360000
              [] m.unit = "m" -> m.value10 * 6000
              [] m.unit = "ms" -> CeilTenths(m.value10)
              [] OTHER -> m.value10 * 100

\* The value of `retryDelay` when delay(retryDelay) is called.
RetryDelay(error, att) ==
    LET m == RetryMatch(error.message)
    IN IF ~m.found THEN INITIAL_RETRY_DELAY_MS * Pow2(att)
       ELSE (CASE m.unit = "h" -> m.value10 * 360000
               [] m.unit = "m" -> m.value10 * 6000
               [] m.unit = "ms" -> CeilTenths(m.value10)
               [] OTHER -> m.value10 * 100) + 1000

ShouldRetry_AnyError(error, att) == att < MAX_RETRIES - 1

\* if (isRateLimited && attempt < MAX_RETRIES - 1)
ShouldRetry(error, att) == isRateLimited(error) /\ att < MAX_RETRIES - 1

TimerFired_AtOnce(ms, waited) == TRUE

\* setTimeout(resolve, ms) resolves once ms milliseconds have gone by.
TimerFired(ms, waited) == waited >= ms

\* The messages the backend's errors carry.
ErrorMessages ==
    {<<>>,
     <<"fetch failed">>,
     <<"Quota", "exceeded">>,
     <<"429">>,
     <<"Too Many Requests">>,
     <<"quota">>,
     <<"429", "retry in", "2", "minutes">>,
     <<"quota", "retry in", "500", "ms">>,
     <<"429", "Retry in", "1.5">>,
     <<"429", "retry in", "1", "hours">>,
     <<"429", "retry in", "30", "s", "or", "retry in", "2", "minutes">>,
     <<"429", "retry in", "3", "milliseconds">>,
     <<"429", "retry in", "a", "moment">>}

\* The errors operation() can throw on its n-th run.
OperationErrors(n) ==
    {[id |-> n, status |-> 0, message |-> m] : m \in ErrorMessages}
      \cup {[id |-> n, status |-> 429, message |-> m] :
              m \in {<<>>, <<"fetch failed">>, <<"retry in", "2", "minutes">>}}
      \cup {[id |-> n, status |-> 500, message |-> <<"retry in", "500", "ms">>]}

retryFrame == <<coreVars, gatewayVars, routeVars, storeVars>>

InitRetry ==
    /\ CoreIdle
    /\ RoutesIdle /\ StoreIdle
    /\ retryPc = "run"
    /\ retryAttempt = 0
    /\ opRuns = 0
    /\ opErrors = <<>>
    /\ retryDelay = 0
    /\ elapsed = 0
    /\ sleeps = <<>>
    /\ thrown = NoError

\* try { return await operation() }
OperationResolves ==
    /\ retryPc = "run"
    /\ retryAttempt < MAX_RETRIES
    /\ opRuns' = opRuns + 1
    /\ retryPc' = "resolved"
    /\ UNCHANGED <<retryFrame, retryAttempt, opErrors, retryDelay, elapsed, sleeps, thrown>>

\* catch (error): the classification, then either the delay is computed and
\* delay(retryDelay) is called, or the error is thrown again.
OperationRejects ==
    /\ retryPc = "run"
    /\ retryAttempt < MAX_RETRIES
    /\ opRuns' = opRuns + 1
    /\ \E error \in OperationErrors(opRuns + 1) :
         /\ opErrors' = Append(opErrors, error)
         /\ IF ShouldRetry(error, retryAttempt)
            THEN /\ retryDelay' = RetryDelay(error, retryAttempt)
                 /\ elapsed' = 0
                 /\ retryPc' = "sleeping"
                 /\ UNCHANGED thrown
            ELSE /\ thrown' = error
                 /\ retryPc' = "rejected"
                 /\ UNCHANGED <<retryDelay, elapsed>>
    /\ UNCHANGED <<retryFrame, retryAttempt, sleeps>>

\* Time goes by while the timer is pending.
TimePasses ==
    /\ retryPc = "sleeping"
    /\ elapsed < retryDelay
    /\ elapsed' = IF elapsed = 0 THEN retryDelay \div 2 ELSE retryDelay
    /\ UNCHANGED <<retryFrame, retryPc, retryAttempt, opRuns, opErrors, retryDelay, sleeps,
                   thrown>>

\* await delay(retryDelay) resolves; continue; attempt++
DelayResolves ==
    /\ retryPc = "sleeping"
    /\ TimerFired(retryDelay, elapsed)
    /\ sleeps' = Append(sleeps, [delay |-> retryDelay, waited |-> elapsed])
    /\ retryAttempt' = retryAttempt + 1
    /\ retryPc' = "run"
    /\ UNCHANGED <<retryFrame, opRuns, opErrors, retryDelay, elapsed, thrown>>

NextRetry ==
    \/ OperationResolves
    \/ OperationRejects
    \/ TimePasses
    \/ DelayResolves

SpecRetry == InitRetry /\ [][NextRetry]_vars

-----------------------------------------------------------------------------
(* The chat routes and the conversation store: routes/chat.ts.  Handlers of  *)
(* requests of one user run interleaved at their awaits; the arrays they     *)
(* hold are objects, so two handlers may hold the same array.                *)

MaxRequests == 3       \* requests received over one exploration

KeptMessages == 20

Slots == {1, 2}

\* Room for the stored array, one array per handler and one being made.
ArrayIds == 1..(Cardinality(Slots) + 2)

Routes == {"message", "simple", "mcp"}

\* A stored Message, as far as the handlers look at it.
Entry(r) == [role |-> r]

\* The array left in the store by n earlier turns of the user.
RECURSIVE PastTurns(_)
PastTurns(n) ==
    IF n = 0 THEN <<>>
    ELSE PastTurns(n - 1) \o <<Entry("user"), Entry("assistant")>>

InitialTurnCounts == {0, 9, 10}

\* history.slice(-20)
LastOf(h, n) == IF Len(h) <= n THEN h ELSE SubSeq(h, Len(h) - n + 1, Len(h))

FreeReq == [pc |-> "free", route |-> "", history |-> 0, passed |-> <<>>, dones |-> 0]

\* The arrays some handler or the store still refers to; the others are
\* garbage.
Referenced(store, rq) ==
    (IF store = 0 THEN {} ELSE {store})
      \cup {rq[s].history : s \in {t \in Slots : rq[t].pc # "free"}}

Collect(arrs, store, rq) ==
    [i \in ArrayIds |-> IF i \in Referenced(store, rq) THEN arrs[i] ELSE <<>>]

\* The identity of a new array.
NewArray(store, rq) == CHOOSE i \in ArrayIds : i \notin Referenced(store, rq)

InitRoutes ==
    /\ CoreIdle
    /\ RetryIdle /\ StoreIdle
    /\ \E n \in InitialTurnCounts :
         /\ conversationStore = IF n = 0 THEN 0 ELSE 1
         /\ arrays = [i \in ArrayIds |-> IF i = 1 THEN PastTurns(n) ELSE <<>>]
    /\ req = [s \in Slots |-> FreeReq]
    /\ requests = 0

routesFrame == <<coreVars, gatewayVars, retryVars, storeVars>>

\* POST /chat/message and POST /chat/mcp/message up to the for await, and
\* POST /chat/simple up to `await chatService.chat(...)`: the optional
\* delete, `conversationStore.get(user.userId) || []`, and the start of the
\* orchestrator.  ChatService builds `messages` from conversationHistory
\* before its first await; MCPChatService.chatStream first awaits
\* ensureMCPConnected and getAllTools.
Receive(s) ==
    /\ req[s].pc = "free"
    /\ requests < MaxRequests
    /\ requests' = requests + 1
    /\ \E route \in Routes, clearHistory \in BOOLEAN :
         /\ route = "simple" => ~clearHistory
         /\ LET store == IF clearHistory THEN 0 ELSE conversationStore
                history == IF store = 0 THEN NewArray(store, req) ELSE store
                arrs == IF store = 0 THEN [arrays EXCEPT ![history] = <<>>] ELSE arrays
                rq == [req EXCEPT ![s] =
                         [pc |-> CASE route = "message" -> "streaming"
                                   [] route = "mcp" -> "connecting"
                                   [] route = "simple" -> "awaiting",
                          route |-> route,
                          history |-> history,
                          passed |-> IF route = "mcp" THEN <<>> ELSE arrs[history],
                          dones |-> 0]]
            IN /\ conversationStore' = store
               /\ req' = rq
               /\ arrays' = Collect(arrs, store, rq)
    /\ UNCHANGED routesFrame

\* The values of req.body.message that are no non-empty string.
InvalidMessages == {"undefined", "null", "empty string", "number", "object"}

\* !message || typeof message !== 'string'
MessageRequired(message) == message \in InvalidMessages

\* message.substring(0, 50) evaluates: message is a string.
HasSubstring(message) == message \notin {"undefined", "null", "number", "object"}

\* The head of the three POST handlers for a message that is no non-empty
\* string: /chat/message logs message.substring(0, 50) first, then all three
\* test the message and answer 400 'Message is required'.  A TypeError
\* thrown there leaves the async handler, which has written no response.
ReceiveInvalid(s) ==
    /\ req[s].pc = "free"
    /\ requests < MaxRequests
    /\ requests' = requests + 1
    /\ \E route \in Routes, message \in InvalidMessages :
         req' = [req EXCEPT ![s] =
                    [FreeReq EXCEPT
                        !.route = route,
                        !.pc = IF route = "message" /\ ~HasSubstring(message)
                               THEN "threw TypeError"
                               ELSE IF MessageRequired(message)
                               THEN "answered 400"
                               ELSE "streaming"]]
    /\ UNCHANGED <<routesFrame, conversationStore, arrays>>

\* The handler of such a request is over.
InvalidOver(s) ==
    /\ req[s].pc \in {"threw TypeError", "answered 400"}
    /\ req' = [req EXCEPT ![s] = FreeReq]
    /\ UNCHANGED <<routesFrame, conversationStore, arrays, requests>>

\* MCPChatService.chatStream after its two awaits:
\* messages = [system, ...conversationHistory, user].
McpBegins(s) ==
    /\ req[s].pc = "connecting"
    /\ req' = [req EXCEPT ![s].pc = "streaming", ![s].passed = arrays[req[s].history]]
    /\ UNCHANGED <<routesFrame, conversationStore, arrays, requests>>

\* case 'done': two pushes on `history`, the slice when it is longer than
\* 20, conversationStore.set.  ChatService.chatStream ends after its `done`;
\* MCPChatService.chatStream yields the provider's `done` of every call
\* and then its own.
DoneChunkHandled(s) ==
    /\ req[s].pc = "streaming"
    /\ req[s].dones < (IF req[s].route = "mcp" THEN MAX_TOOL_ITERATIONS + 1 ELSE 1)
    /\ LET old == req[s].history
           pushed == arrays[old] \o <<Entry("user"), Entry("assistant")>>
           arrs == [arrays EXCEPT ![old] = pushed]
           sliced == Len(pushed) > KeptMessages
           history == IF sliced THEN NewArray(conversationStore, req) ELSE old
           arrs2 == IF sliced THEN [arrs EXCEPT ![history] = LastOf(pushed, KeptMessages)]
                    ELSE arrs
           rq == [req EXCEPT ![s].history = history,
                             ![s].dones = @ + 1,
                             ![s].pc = IF req[s].route = "mcp" THEN "streaming" ELSE "free"]
       IN /\ conversationStore' = history
          /\ req' = [rq EXCEPT ![s] = IF rq[s].pc = "free" THEN FreeReq ELSE rq[s]]
          /\ arrays' = Collect(arrs2, history, req')
    /\ UNCHANGED <<routesFrame, requests>>

\* The for await ends, or the catch block runs: res.end().
StreamEnds(s) ==
    /\ \/ req[s].pc = "connecting"
       \/ req[s].pc = "streaming" /\ (req[s].route = "mcp" \/ req[s].dones = 0)
    /\ req' = [req EXCEPT ![s] = FreeReq]
    /\ arrays' = Collect(arrays, conversationStore, req')
    /\ UNCHANGED <<routesFrame, conversationStore, requests>>

\* POST /chat/simple after the await: [...history, user, response].slice(-20)
\* is stored, or the catch block answers 500.
SimpleAnswers(s) ==
    /\ req[s].pc = "awaiting"
    /\ \E ok \in BOOLEAN :
         LET newHistory == NewArray(conversationStore, req)
             rq == [req EXCEPT ![s] = FreeReq]
         IN IF ok
            THEN /\ conversationStore' = newHistory
                 /\ req' = rq
                 /\ arrays' = Collect(
                        [arrays EXCEPT ![newHistory] =
                            LastOf(arrays[req[s].history]
                                     \o <<Entry("user"), Entry("assistant")>>,
                                   KeptMessages)],
                        newHistory, rq)
            ELSE /\ req' = rq
                 /\ arrays' = Collect(arrays, conversationStore, rq)
                 /\ UNCHANGED conversationStore
    /\ UNCHANGED <<routesFrame, requests>>

\* DELETE /chat/history
DeleteHistory ==
    /\ conversationStore # 0
    /\ conversationStore' = 0
    /\ arrays' = Collect(arrays, 0, req)
    /\ UNCHANGED <<routesFrame, req, requests>>

NextRoutes ==
    \/ \E s \in Slots : Receive(s)
    \/ \E s \in Slots : ReceiveInvalid(s)
    \/ \E s \in Slots : InvalidOver(s)
    \/ \E s \in Slots : McpBegins(s)
    \/ \E s \in Slots : DoneChunkHandled(s)
    \/ \E s \in Slots : StreamEnds(s)
    \/ \E s \in Slots : SimpleAnswers(s)
    \/ DeleteHistory

SpecRoutes == InitRoutes /\ [][NextRoutes]_vars

-----------------------------------------------------------------------------
(* POST /chat/simple with the whole turn of ChatService.chat inside: the     *)
(* requests of one user, one after the other.  The stored array holds        *)
(* Messages.                                                                 *)

StoredHistory == IF conversationStore = 0 THEN <<>> ELSE arrays[conversationStore]

turnLocals == <<iterations, hasToolCalls, messages, response, callIdx, out, outCall,
                result, toolResult, llmCalls, queries, itemsUsed>>

simpleFrame == <<service, provider, role, turnTool, turnArgs, db, connections, toolToServer,
                 toolList, gatewayVars, retryVars, storeVars, req>>

InitSimple ==
    /\ InitTurn("start")
    /\ service = "ChatService"

\* The handler after `await chatService.chat(message, context, history)`:
\* newHistory = [...history, user, response].slice(-20) is stored and the
\* response is sent.
SimpleResponds ==
    /\ pc = "returned"
    /\ arrays' = <<LastOf(StoredHistory
                            \o <<Message("user", UserMessage, NoId, <<>>), result>>,
                          KeptMessages)>>
    /\ conversationStore' = 1
    /\ requests' = requests + 1
    /\ pc' = "answered"
    /\ UNCHANGED <<simpleFrame, turnLocals>>

\* The catch block: a 500 response, nothing stored.
SimpleFails ==
    /\ pc = "threw"
    /\ requests' = requests + 1
    /\ pc' = "answered"
    /\ UNCHANGED <<simpleFrame, turnLocals, conversationStore, arrays>>

\* The user's next request: the handler reads the stored history and calls
\* chatService.chat with it.
SimpleReceives ==
    /\ pc = "answered"
    /\ requests = 1
    /\ pc' = "start"
    /\ messages' = InitialTranscript(role, StoredHistory)
    /\ iterations' = 0
    /\ response' = NoMessage
    /\ callIdx' = 0
    /\ result' = NoMessage
    /\ toolResult' = NoResult
    /\ llmCalls' = 0
    /\ queries' = <<>>
    /\ itemsUsed' = 0
    /\ UNCHANGED <<simpleFrame, hasToolCalls, out, outCall, conversationStore, arrays, requests>>

NextSimple ==
    \/ CSChatFirst
    \/ CSChatEnter
    \/ CSChatDispatch
    \/ CSChatAgain
    \/ CSChatReturn
    \/ SimpleResponds
    \/ SimpleFails
    \/ SimpleReceives

SpecSimple == InitSimple /\ [][NextSimple]_vars

-----------------------------------------------------------------------------
(* The vector store: VectorStore.ts.  A metadata object and a filter are     *)
(* sets of <<key, value>> pairs with one pair per key; a value carries its   *)
(* JavaScript type.                                                          *)

MaxTopK == 3           \* largest topK asked for

Str(t) == [type |-> "string", text |-> t]
Num(t) == [type |-> "number", text |-> t]
Bool(t) == [type |-> "boolean", text |-> t]
SqlNull == [class |-> "null", text |-> ""]

Keys == {"category", "inStock"}

\* JSON.stringify(doc.metadata) on the way in and json_extract(metadata,
\* '$.key') on the way out: a string is TEXT, a number is numeric, true and
\* false are the integers 1 and 0, a missing key is NULL.
json_extract(metadata, key) ==
    IF \E p \in metadata : p[1] = key
    THEN LET v == (CHOOSE p \in metadata : p[1] = key)[2]
         IN CASE v.type = "string" -> [class |-> "text", text |-> v.text]
              [] v.type = "number" -> [class |-> "numeric", text |-> v.text]
              [] v.type = "boolean" ->
                    [class |-> "numeric", text |-> IF v.text = "true" THEN "1" ELSE "0"]
    ELSE SqlNull

\* The value a `?` parameter is bound to.
Bind(v) ==
    CASE v.type = "string" -> [class |-> "text", text |-> v.text]
      [] v.type = "number" -> [class |-> "numeric", text |-> v.text]
      [] v.type = "boolean" ->
            [class |-> "numeric", text |-> IF v.text = "true" THEN "1" ELSE "0"]

\* The SQL comparison `a = b` being true: never with NULL, and a text is
\* never equal to a number.
SqlEquals(a, b) == a.class # "null" /\ b.class # "null" /\ a = b

\* WHERE json_extract(metadata, '$.k1') = ? AND json_extract(...) = ? ...,
\* and no WHERE clause for an absent or empty filter.
MatchesFilter(metadata, filter) ==
    \A c \in filter : SqlEquals(json_extract(metadata, c[1]), Bind(c[2]))

RECURSIVE DotProduct(_, _, _)
DotProduct(a, b, n) == IF n = 0 THEN 0 ELSE DotProduct(a, b, n - 1) + a[n] * b[n]

\* cosineSimilarity(a, b), kept as the exact quotient
\* dot / (sqrt(normA) * sqrt(normB)); both vectors are cut to the shorter
\* length first.
cosineSimilarity(a, b) ==
    LET minLen == Min(Len(a), Len(b))
    IN [dot |-> DotProduct(a, b, minLen),
        normA |-> DotProduct(a, a, minLen),
        normB |-> DotProduct(b, b, minLen)]

\* denominator === 0 ? 0 : dotProduct / denominator, as a sign and the
\* square of the magnitude num / den.
Sign(score) ==
    IF score.normA * score.normB = 0 \/ score.dot = 0 THEN 0
    ELSE IF score.dot > 0 THEN 1 ELSE -1

\* The number x.score - y.score is >= 0.
ScoreAtLeast(x, y) ==
    CASE Sign(x) # Sign(y) -> Sign(x) > Sign(y)
      [] Sign(x) = 0 /\ Sign(y) = 0 -> TRUE
      [] Sign(x) = 1 /\ Sign(y) = 1 ->
            x.dot * x.dot * y.normA * y.normB >= y.dot * y.dot * x.normA * x.normB
      [] Sign(x) = -1 /\ Sign(y) = -1 ->
            x.dot * x.dot * y.normA * y.normB <= y.dot * y.dot * x.normA * x.normB

\* One insertion of the stable sort: r goes behind every result whose score
\* is at least its own.
RECURSIVE InsertByScore(_, _)
InsertByScore(sorted, r) ==
    IF sorted = <<>> THEN <<r>>
    ELSE IF ScoreAtLeast(Head(sorted).score, r.score)
    THEN <<Head(sorted)>> \o InsertByScore(Tail(sorted), r)
    ELSE <<r>> \o sorted

\* results.sort((a, b) => b.score - a.score)
RECURSIVE SortByScore(_)
SortByScore(rs) ==
    IF rs = <<>> THEN <<>>
    ELSE InsertByScore(SortByScore(SubSeq(rs, 1, Len(rs) - 1)), rs[Len(rs)])

search_NoSlice(table, queryEmbedding, topK, filter) ==
    LET selected == SelectSeq(table, LAMBDA row : MatchesFilter(row.metadata, filter))
        scored == [k \in 1..Len(selected) |->
                      [id |-> selected[k].id,
                       content |-> selected[k].content,
                       metadata |-> selected[k].metadata,
                       score |-> cosineSimilarity(queryEmbedding, selected[k].embedding)]]
    IN SortByScore(scored)

\* VectorStore.search
search(table, queryEmbedding, topK, filter) ==
    LET selected == SelectSeq(table, LAMBDA row : MatchesFilter(row.metadata, filter))
        scored == [k \in 1..Len(selected) |->
                      [id |-> selected[k].id,
                       content |-> selected[k].content,
                       metadata |-> selected[k].metadata,
                       score |-> cosineSimilarity(queryEmbedding, selected[k].embedding)]]
    IN SubSeq(SortByScore(scored), 1, Min(topK, Len(scored)))

add_PlainInsert(table, doc) == Append(table, doc)

\* INSERT OR REPLACE: a row with the same id is removed and the new row is
\* the last one.
add(table, doc) == Append(SelectSeq(table, LAMBDA row : row.id # doc.id), doc)

\* The transaction of addBatch: one INSERT OR REPLACE per document, in order.
RECURSIVE addBatch(_, _)
addBatch(table, docs) ==
    IF docs = <<>> THEN table
    ELSE addBatch(add(table, Head(docs)), Tail(docs))

\* DELETE FROM ... WHERE id = ?
delete(table, id) == SelectSeq(table, LAMBDA row : row.id # id)

\* SELECT COUNT(*)
count(table) == Len(table)

DocIds == {"product-1", "product-2", "product-3"}

\* The contents, embeddings and metadata the documents are explored with.
DocVariants ==
    {[content |-> "c1", embedding |-> <<1, 0>>,
      metadata |-> {<<"category", Str("a")>>, <<"inStock", Bool("true")>>}],
     [content |-> "c2", embedding |-> <<1, 1>>,
      metadata |-> {<<"category", Str("a")>>, <<"inStock", Num("1")>>}],
     [content |-> "c3", embedding |-> <<0, 0>>,
      metadata |-> {<<"category", Str("b")>>, <<"inStock", Bool("false")>>}],
     [content |-> "c4", embedding |-> <<-1, 1, 1>>,
      metadata |-> {<<"category", Str("b")>>, <<"inStock", Bool("true")>>}],
     [content |-> "c5", embedding |-> <<1, 3>>,
      metadata |-> {<<"inStock", Num("0")>>}],
     [content |-> "c6", embedding |-> <<2, 1>>,
      metadata |-> {<<"category", Str("1")>>}]}

Docs == {[id |-> i, content |-> v.content, embedding |-> v.embedding, metadata |-> v.metadata] :
            i \in DocIds, v \in DocVariants}

\* The arrays addBatch is explored with: up to two documents, the same id
\* twice included.
BatchDocs == {d \in Docs : d.id \in {"product-1", "product-2"} /\ d.content \in {"c1", "c2"}}

Batches == {<<>>} \cup {<<d>> : d \in BatchDocs} \cup {<<d, e>> : d, e \in BatchDocs}

Queries == {<<1, 0>>, <<1, 1>>, <<0, 0>>}

Filters ==
    {{},
     {<<"category", Str("a")>>},
     {<<"inStock", Bool("true")>>},
     {<<"inStock", Num("1")>>},
     {<<"category", Str("a")>>, <<"inStock", Bool("true")>>},
     {<<"category", Num("1")>>}}

\* minScore as the quotient num / den; 0.5 is the constructor's default.
DefaultMinScore == [num |-> 1, den |-> 2]

MinScores == {DefaultMinScore, [num |-> 9, den |-> 10]}

\* r.score >= this.minScore
ScoreReaches(score, minScore) ==
    IF minScore.num = 0 THEN Sign(score) >= 0
    ELSE /\ Sign(score) = 1
         /\ score.dot * score.dot * minScore.den * minScore.den
               >= minScore.num * minScore.num * score.normA * score.normB

\* RAGQueryEngine.buildContext, by the two shapes of the string it builds.
buildContext(found) ==
    IF Len(found) = 0 THEN "No relevant products found" ELSE "Found relevant products"

ragSearch_NoMinimum(table, queryEmbedding, topK, filter, minScore) ==
    LET found == search(table, queryEmbedding, topK, filter)
    IN [results |-> found, context |-> buildContext(found)]

\* RAGQueryEngine.search, from the query embedding on.
ragSearch(table, queryEmbedding, topK, filter, minScore) ==
    LET found == search(table, queryEmbedding, topK, filter)
        filteredResults == SelectSeq(found, LAMBDA r : ScoreReaches(r.score, minScore))
    IN [results |-> filteredResults, context |-> buildContext(filteredResults)]

\* The filters search, searchByCategory and searchInStock pass on.
EngineFilters == {{}, {<<"category", Str("a")>>}, {<<"inStock", Bool("true")>>}}

storeFrame == <<coreVars, gatewayVars, retryVars, routeVars>>

InitStore ==
    /\ CoreIdle
    /\ RetryIdle /\ RoutesIdle
    /\ StoreIdle

\* vectorStore.add(doc)
Add ==
    /\ storePc = "idle"
    /\ \E doc \in Docs :
         /\ rows' = add(rows, doc)
         /\ written' = <<doc>>
    /\ prior' = rows
    /\ storePc' = "wrote"
    /\ UNCHANGED <<storeFrame, searchArgs, results>>

\* vectorStore.addBatch(docs)
AddBatch ==
    /\ storePc = "idle"
    /\ \E docs \in Batches :
         /\ rows' = addBatch(rows, docs)
         /\ written' = docs
    /\ prior' = rows
    /\ storePc' = "wrote"
    /\ UNCHANGED <<storeFrame, searchArgs, results>>

\* The caller goes on after add / addBatch.
WriteReturns ==
    /\ storePc = "wrote"
    /\ storePc' = "idle"
    /\ written' = <<>>
    /\ prior' = <<>>
    /\ UNCHANGED <<storeFrame, rows, searchArgs, results>>

\* vectorStore.delete(id)
Delete ==
    /\ storePc = "idle"
    /\ \E id \in DocIds : rows' = delete(rows, id)
    /\ UNCHANGED <<storeFrame, storePc, searchArgs, results, written, prior>>

\* vectorStore.clear()
Clear ==
    /\ storePc = "idle"
    /\ rows' = <<>>
    /\ UNCHANGED <<storeFrame, storePc, searchArgs, results, written, prior>>

\* vectorStore.search(queryEmbedding, topK, filter)
Search ==
    /\ storePc = "idle"
    /\ \E q \in Queries, k \in 0..MaxTopK, f \in Filters :
         /\ searchArgs' = [query |-> q, topK |-> k, filter |-> f]
         /\ results' = search(rows, q, k, f)
    /\ storePc' = "searched"
    /\ UNCHANGED <<storeFrame, rows, written, prior>>

\* ragQueryEngine.search(query, topK, filter), the embedding service having
\* turned the query into q.
EngineSearch ==
    /\ storePc = "idle"
    /\ \E q \in Queries, k \in 0..MaxTopK, f \in EngineFilters, min \in MinScores :
         /\ searchArgs' = [query |-> q, topK |-> k, filter |-> f, minScore |-> min]
         /\ results' = ragSearch(rows, q, k, f, min)
    /\ storePc' = "answered"
    /\ UNCHANGED <<storeFrame, rows, written, prior>>

\* The caller is done with the results.
SearchReturns ==
    /\ storePc \in {"searched", "answered"}
    /\ storePc' = "idle"
    /\ searchArgs' = NoSearch
    /\ results' = <<>>
    /\ UNCHANGED <<storeFrame, rows, written, prior>>

NextStore ==
    \/ Add
    \/ AddBatch
    \/ WriteReturns
    \/ Delete
    \/ Clear
    \/ Search
    \/ EngineSearch
    \/ SearchReturns

SpecStore == InitStore /\ [][NextStore]_vars

-----------------------------------------------------------------------------
(* The server-sent events the streaming routes write for a turn *)

\* The switch on chunk.type: the event sendSSE is called with, "" when the
\* route has no case for the chunk.  POST /chat/message consumes
\* ChatService.chatStream, POST /chat/mcp/message MCPChatService.chatStream.
RouteEvent(svc, chunk) ==
    CASE chunk.type = "text" -> "text"
      [] chunk.type = "tool_call" -> "tool"
      [] chunk.type = "chart" -> IF svc = "ChatService" THEN "chart" ELSE ""
      [] chunk.type = "tool_result" -> IF svc = "MCPChatService" THEN "tool_result" ELSE ""
      [] chunk.type = "done" -> "done"
      [] chunk.type = "error" -> "error"
      [] OTHER -> ""

\* The events written to the response for the chunks cs, followed by the
\* `error` event of the catch block when the generator threw.
sendSSE(svc, cs, threw) ==
    SelectSeq([k \in 1..Len(cs) |-> RouteEvent(svc, cs[k])], LAMBDA e : e # "")
      \o (IF threw THEN <<"error">> ELSE <<>>)

\* The handler's locals after the chunks cs[1..k] of a turn that began with
\* the stored array h0, and the array in conversationStore: `text` adds to
\* fullResponse; `done` pushes the user and the assistant entry on `history`,
\* slices it when it is longer than 20 and stores it.
RECURSIVE ConsumeChunks(_, _, _)
ConsumeChunks(cs, k, h0) ==
    IF k = 0 THEN [history |-> h0, fullResponse |-> <<>>, stored |-> h0]
    ELSE LET before == ConsumeChunks(cs, k - 1, h0)
             pushed == before.history
                         \o <<[role |-> "user", content |-> UserMessage],
                              [role |-> "assistant", content |-> before.fullResponse]>>
         IN CASE cs[k].type = "text" ->
                   [before EXCEPT !.fullResponse = @ \o cs[k].content]
              [] cs[k].type = "done" ->
                   [before EXCEPT !.history = LastOf(pushed, KeptMessages),
                                  !.stored = LastOf(pushed, KeptMessages)]
              [] OTHER -> before

-----------------------------------------------------------------------------
(* Properties *)

CountType(cs, t) == Cardinality({k \in 1..Len(cs) : cs[k].type = t})

\* Positions of the assistant messages that carry tool calls.
AssistantPositions ==
    {p \in 1..Len(messages) :
        messages[p].role = "assistant" /\ Len(messages[p].toolCalls) > 0}

\* The n first tool calls of the assistant message at p are answered, in
\* order, by the n messages that follow it.
Answered(p, n) ==
    \A j \in 1..n :
        /\ p + j <= Len(messages)
        /\ messages[p + j].role = "tool"
        /\ messages[p + j].toolCallId = messages[p].toolCalls[j].id

\* C1: one invocation of chatStream (ChatService or MCPChatService) makes at
\* most 5 calls to the provider's chatStream operation, whatever the model
\* answers.
C1_StreamCallCap == llmCalls <= 5

C1_Witness == pc = "returned" /\ llmCalls = 5 /\ Len(response.toolCalls) > 0

\* C2: one invocation of the non-streaming chat (ChatService or
\* MCPChatService) makes at most 5 calls to the provider's chat operation.
C2_ChatCallCap == llmCalls \in 0..5

\* C3: when no provider call fails, the chunk sequence of chatStream holds
\* exactly one `done` chunk, it is the last chunk, and nothing follows a
\* `done`.
C3_SingleDoneLast ==
    pc # "threw" =>
        /\ \A i \in 1..Len(out) : out[i].type = "done" => i = Len(out)
        /\ pc = "returned" => Len(out) > 0 /\ Last(out).type = "done"

\* C4: when a provider chatStream call fails, the chunk sequence ends with
\* exactly one `error` chunk and holds no `done` chunk.
C4_ErrorChunkOnFailure ==
    pc = "threw" =>
        /\ Len(out) > 0
        /\ Last(out).type = "error"
        /\ CountType(out, "error") = 1
        /\ CountType(out, "done") = 0

\* C5: when the fifth provider call of a turn still returns tool calls,
\* chatStream ends with a fallback apology text chunk followed by `done`.
C5_ApologyAtCap ==
    (pc = "returned" /\ llmCalls = 5 /\ Len(response.toolCalls) > 0) =>
        /\ Len(out) >= 2
        /\ out[Len(out) - 1] = TextChunk(ApologyText)
        /\ Last(out).type = "done"

\* C6: the tool calls of an assistant response are dispatched one at a time
\* in their order, and the transcript holds exactly one tool message per
\* call, in that order and with the call's id, before the next provider call.
C6_ToolMessagesMatch ==
    \A p \in AssistantPositions :
        LET n == Len(messages[p].toolCalls)
        IN IF pc = "dispatch" /\ \A q \in AssistantPositions : q <= p
           THEN /\ Answered(p, callIdx - 1)
                /\ Len(messages) = p + callIdx - 1
                /\ messages[p] = response
           ELSE /\ Answered(p, n)
                /\ p + n + 1 <= Len(messages) => messages[p + n + 1].role # "tool"

C6_Witness ==
    \E p \in AssistantPositions :
        /\ Len(messages[p].toolCalls) = 2
        /\ \E q \in AssistantPositions : q > p

\* C7: in the chunk sequence of a turn, the `text` chunks of provider call N
\* precede the `tool_call`, `tool_result` and `chart` chunks of call N, and
\* the chunks of call N precede those of call N+1.
C7_ChunkOrder ==
    \A i, j \in 1..Len(out) :
        (i < j /\ outCall[i] > 0 /\ outCall[j] > 0) =>
            /\ outCall[i] <= outCall[j]
            /\ (outCall[i] = outCall[j] /\ out[j].type = "text") =>
                   out[i].type \notin {"tool_call", "tool_result", "chart"}

\* C8: executeTool never throws; an unknown tool name and a throwing handler
\* both give a result whose content is the JSON object {error: message}.
C8_ExecuteToolNeverThrows ==
    /\ pc # "threw"
    /\ pc = "executed" =>
        /\ ~toolResult.threw
        /\ turnTool = "no_such_tool" =>
              toolResult.content = <<"{error:", "Unknown tool: ", "no_such_tool", "}">>
        /\ (queries # <<>> /\ db = "fails") =>
              toolResult.content = <<"{error:", "query failed", "}">>
        /\ (queries # <<>> /\ db = "empty" /\ turnTool = "get_product_details") =>
              toolResult.content = <<"{error:", "Product not found", "}">>
        /\ (queries # <<>> /\ db = "empty" /\ turnTool = "get_order_details") =>
              toolResult.content = <<"{error:", "Order not found", "}">>

C8_Witness == pc = "executed" /\ db = "fails" /\ queries # <<>> /\ Head(toolResult.content) = "{error:"

\* C9: for each of the five admin-only tools, executeTool called by a
\* non-admin returns content with the error "Admin only", runs no query and
\* does not throw.
C9_AdminOnlyGate ==
    (turnTool \in {"get_sales_dashboard", "get_sales_analytics", "get_top_products",
                   "get_inventory_status", "get_revenue_by_category"}
       /\ role # "admin" /\ pc \in {"executed", "threw"}) =>
        /\ pc = "executed"
        /\ ~toolResult.threw
        /\ toolResult.content = <<"{error:", "Admin only", "}">>
        /\ toolResult.chart = ""
        /\ queries = <<>>

C9_Witness == pc = "executed" /\ role = "customer" /\ turnTool = "get_sales_dashboard"

\* C10: getToolsForRole('customer') is exactly the customer tool set and
\* holds no admin-only tool, getToolsForRole('admin') is the customer set
\* followed by the admin-only tools, and the names in either are distinct.
C10_ToolsForRole ==
    pc = "listed" =>
        LET names == [k \in 1..Len(toolList) |-> toolList[k].name]
        IN /\ role = "customer" =>
                /\ names = CustomerToolNames
                /\ Range(names) \cap Range(AdminOnlyToolNames) = {}
           /\ role = "admin" => names = CustomerToolNames \o AdminOnlyToolNames
           /\ Cardinality(Range(names)) = Len(names)
           /\ Len(names) = IF role = "admin" THEN 12 ELSE 7

C10_Witness == pc = "listed" /\ role = "customer" /\ Len(toolList) = 7

\* Names of the tools in a tool list.
NamesOf(tools) == {tools[k].name : k \in 1..Len(tools)}

\* C11: getAllTools(isAdmin = false) returns no tool declared by a server
\* whose config has adminOnly = true, and getAllTools(isAdmin = true) returns
\* the declared tools of every connected server.
C11_AdminOnlyServersHidden ==
    pc \in {"ready", "called"} =>
        /\ role # "admin" =>
              \A s \in ServerNames :
                  adminOnly(s) => NamesOf(toolList) \cap Range(ServerTools(s)) = {}
        /\ role = "admin" =>
              NamesOf(toolList) = UNION {Range(ServerTools(s)) : s \in listedConns}

C11_Witness ==
    /\ pc = "ready"
    /\ role = "customer"
    /\ "analytics" \in listedConns
    /\ "search_products" \in NamesOf(toolList)

\* C12: once disconnectAll has returned, callTool for a tool name that a
\* server served before the disconnect fails with "Server not connected".
C12_NotConnectedAfterDisconnect ==
    discPc = "returned" =>
        \A t \in servedBefore :
            LET o == callTool(connections, toolToServer, t, "undefined", "rows")
            IN o.threw /\ Head(o.message) = "Server not connected: "

\* C13: in gateway mode a spawn failure, a handshake failure and a tool call
\* failure each end up as tool-result content {error: message}; none of them
\* makes the turn of MCPChatService throw.
C13_GatewayFailuresBecomeContent ==
    /\ pc = "threw" =>
          \A s \in ServerNames : connPc[s] \notin {"spawnFailed", "handshakeFailed"}
    /\ (pc = "called" /\ callOutcome.threw) =>
          /\ ~toolResult.threw
          /\ toolResult.content = JSONError(callOutcome.message)

\* C14: when disconnectAll returns, every connection it went through has had
\* its session close attempted and its process terminated, also when a close
\* failed; and a close that never completes leaves no other connected server
\* without a close attempt.
C14_DisconnectAllBestEffort ==
    /\ discPc = "returned" =>
          \A s \in discVisited : s \in closeTried /\ procs[s] = "killed"
    /\ discPc = "stuck" => connections \subseteq closeTried

\* The number word and the following word at the leftmost place of msg
\* where "retry in" is followed by a number; <<>> when there is none.
FirstRetryPhrase(msg) ==
    LET places == {i \in 1..Len(msg) - 1 :
                      msg[i] \in {"retry in", "Retry in"} /\ msg[i + 1] \in NumberWords}
    IN IF places = {} THEN <<>>
       ELSE LET i == CHOOSE j \in places : \A k \in places : j <= k
            IN <<msg[i + 1], IF i + 2 <= Len(msg) THEN msg[i + 2] ELSE "">>

\* msg contains "retry in <number> <word>" somewhere.
HasRetryPhrase(msg, number, word) ==
    \E i \in 1..Len(msg) - 2 :
        msg[i] = "retry in" /\ msg[i + 1] = number /\ msg[i + 2] = word

\* C15: withRetry runs the operation at most 3 times; every retry follows a
\* failure classified as rate-limited; a failure not so classified is thrown
\* again at once, with no sleep after it; and after the third rate-limited
\* failure that same error object is thrown to the caller.
C15_RetryOnlyWhenRateLimited ==
    /\ opRuns <= 3
    /\ Len(sleeps) <= 2
    /\ \A k \in 1..Len(opErrors) :
          ~isRateLimited(opErrors[k]) =>
              /\ k = Len(opErrors)
              /\ retryPc = "rejected"
              /\ thrown = opErrors[k]
              /\ Len(sleeps) = k - 1
    /\ (Len(opErrors) = 3 /\ isRateLimited(opErrors[3])) =>
          /\ retryPc = "rejected"
          /\ thrown = opErrors[3]
          /\ thrown.id = 3
    /\ retryPc = "rejected" => thrown = Last(opErrors)

C15_Witness ==
    /\ retryPc = "rejected"
    /\ opRuns = 3
    /\ Len(sleeps) = 2
    /\ isRateLimited(thrown)
    /\ thrown.id = 3

\* C16 as stated: after a rate-limited error whose message contains
\* "retry in 2 minutes" the delay slept is 121000 ms, and after one whose
\* message contains "retry in 500ms" it is 501 ms.
C16_ParsedDelays ==
    \A k \in 1..Len(sleeps) :
        /\ HasRetryPhrase(opErrors[k].message, "2", "minutes") => sleeps[k].delay = 121000
        /\ HasRetryPhrase(opErrors[k].message, "500", "ms") => sleeps[k].delay = 501

\* C16 as amended: after a rate-limited error whose message has "retry in 2
\* minutes" as its first "retry in <number>" the delay slept is 121000 ms,
\* and after one that has "retry in 500ms" there it is 1500 ms.
C16_ParsedDelaysWithBuffer ==
    \A k \in 1..Len(sleeps) :
        /\ FirstRetryPhrase(opErrors[k].message) = <<"2", "minutes">> =>
              sleeps[k].delay = 121000
        /\ FirstRetryPhrase(opErrors[k].message) = <<"500", "ms">> =>
              sleeps[k].delay = 1500

C16_Witness ==
    /\ Len(sleeps) = 2
    /\ FirstRetryPhrase(opErrors[1].message) = <<"2", "minutes">>
    /\ sleeps[1].delay = 121000
    /\ FirstRetryPhrase(opErrors[2].message) = <<"500", "ms">>
    /\ sleeps[2].delay = 1500

C18_HistoryWindow ==
    /\ conversationStore # 0 => Len(arrays[conversationStore]) <= 20
    /\ \A s \in Slots :
          req[s].pc \in {"streaming", "awaiting"} => Len(req[s].passed) <= 20

\* C19: when the response of /chat/message or /chat/mcp/message is ended,
\* exactly one terminal event (`done` or `error`) has been written and it is
\* the last event, also when a provider call failed during the turn.
C19_OneTerminalEvent ==
    pc \in {"returned", "threw"} =>
        LET events == sendSSE(service, out, pc = "threw")
        IN /\ Len(events) > 0
           /\ Last(events) \in {"done", "error"}
           /\ Cardinality({k \in 1..Len(events) : events[k] \in {"done", "error"}}) = 1

\* A boolean read as the number SQLite stores for it.
AsStored(v) ==
    IF v.type = "boolean" THEN Num(IF v.text = "true" THEN "1" ELSE "0") ELSE v

ResultsSorted ==
    \A i, j \in 1..Len(results) : i < j => ScoreAtLeast(results[i].score, results[j].score)

\* C20 (as stated): after search(queryEmbedding, topK, filter) the results are
\* sorted by score from high to low, there are at most topK and at most
\* count() of them, and every result is a stored document whose metadata holds
\* every filter key with exactly the filter's value.
C20_SearchResults ==
    storePc = "searched" =>
        /\ ResultsSorted
        /\ Len(results) <= searchArgs.topK
        /\ Len(results) <= count(rows)
        /\ \A k \in 1..Len(results) :
              \E n \in 1..Len(rows) :
                 /\ rows[n].id = results[k].id
                 /\ searchArgs.filter \subseteq rows[n].metadata

\* C20 (amended): the same, where a filter value equals a metadata value as
\* SQLite compares them: same string, or same number with true and false
\* counting as 1 and 0.
C20_SearchResultsAsStored ==
    storePc = "searched" =>
        /\ ResultsSorted
        /\ Len(results) <= searchArgs.topK
        /\ Len(results) <= count(rows)
        /\ \A k \in 1..Len(results) :
              \E n \in 1..Len(rows) :
                 /\ rows[n].id = results[k].id
                 /\ \A c \in searchArgs.filter :
                       \E p \in rows[n].metadata :
                          p[1] = c[1] /\ AsStored(p[2]) = AsStored(c[2])

\* A filtered search that leaves a stored document out, cuts the matches to
\* topK and returns two results of different scores.
C20_Witness ==
    /\ storePc = "searched"
    /\ searchArgs.filter # {}
    /\ Len(results) = 2
    /\ searchArgs.topK = 2
    /\ count(rows) = 3
    /\ ~ScoreAtLeast(results[2].score, results[1].score)
    /\ \E n \in 1..Len(rows) : \A k \in 1..Len(results) : results[k].id # rows[n].id

IdsOf(table) == {table[n].id : n \in 1..Len(table)}

\* The last document of docs with the given id.
LastWritten(docs, id) ==
    docs[CHOOSE n \in 1..Len(docs) :
            docs[n].id = id /\ \A m \in (n + 1)..Len(docs) : docs[m].id # id]

\* C21: the table never holds two rows of one id; after add or addBatch every
\* written id is stored once with the content, embedding and metadata last
\* written for it, the other rows are the ones stored before, and count() has
\* grown by one for each written id that was not stored before (by nothing
\* for an id that was).
C21_UpsertKeepsOneRowPerId ==
    /\ \A n, m \in 1..Len(rows) : rows[n].id = rows[m].id => n = m
    /\ storePc = "wrote" =>
          /\ IdsOf(rows) = IdsOf(prior) \cup IdsOf(written)
          /\ \A n \in 1..Len(rows) :
                IF rows[n].id \in IdsOf(written)
                THEN rows[n] = LastWritten(written, rows[n].id)
                ELSE \E m \in 1..Len(prior) : prior[m] = rows[n]
          /\ count(rows) = count(prior) + Cardinality(IdsOf(written) \ IdsOf(prior))

\* An addBatch of two documents, one replacing a stored document by other
\* content and one of a new id.
C21_Witness ==
    /\ storePc = "wrote"
    /\ Len(written) = 2
    /\ written[1].id \in IdsOf(prior)
    /\ \E m \in 1..Len(prior) : prior[m].id = written[1].id /\ prior[m] # written[1]
    /\ written[2].id \notin IdsOf(prior)
    /\ count(prior) = 2
    /\ count(rows) = 3

\* C22: every result RAGQueryEngine.search returns has a score of at least the
\* minimum score, and when no stored document reaches the minimum the results
\* are empty and the context is the "No relevant products found" message.
C22_MinimumScore ==
    storePc = "answered" =>
        /\ \A k \in 1..Len(results.results) :
              ScoreReaches(results.results[k].score, searchArgs.minScore)
        /\ (\A n \in 1..Len(rows) :
               ~ScoreReaches(cosineSimilarity(searchArgs.query, rows[n].embedding),
                             searchArgs.minScore))
              => /\ results.results = <<>>
                 /\ results.context = "No relevant products found"

\* With the default minimum, VectorStore.search returns a row whose score is
\* above 0 and below 0.5, and the engine returns no result.
C22_Witness ==
    /\ storePc = "answered"
    /\ searchArgs.minScore = DefaultMinScore
    /\ LET raw == search(rows, searchArgs.query, searchArgs.topK, searchArgs.filter)
       IN /\ raw # <<>>
          /\ Sign(raw[1].score) = 1
          /\ ~ScoreReaches(raw[1].score, DefaultMinScore)
    /\ results.results = <<>>
    /\ results.context = "No relevant products found"

\* C23: in a gateway turn of a caller who is not admin, no tool call is
\* forwarded to a server configured adminOnly.
C23_AdminOnlyNeverForwarded ==
    (service = "MCPChatService" /\ role # "admin") =>
        \A k \in 1..Len(queries) :
            ~(queries[k] \in ServerNames /\ adminOnly(queries[k]))

\* The tool calls of the assistant message at p of transcript h are each
\* answered by exactly one tool message of h.
AllAnsweredIn(h, p) ==
    \A j \in 1..Len(h[p].toolCalls) :
        Cardinality({q \in 1..Len(h) :
                        h[q].role = "tool" /\ h[q].toolCallId = h[p].toolCalls[j].id}) = 1

\* C24: over the /chat/simple turns of one user, the transcript handed to a
\* provider call answers every tool call of each of its assistant messages
\* with exactly one tool message, and the stored history holds no assistant
\* message with unanswered tool calls.
C24_ToolCallsAnsweredAcrossTurns ==
    /\ pc \in {"start", "again"} =>
          \A p \in 1..Len(messages) : messages[p].role = "assistant" => AllAnsweredIn(messages, p)
    /\ \A p \in 1..Len(StoredHistory) :
          StoredHistory[p].role = "assistant" => AllAnsweredIn(StoredHistory, p)

\* C25: whenever a turn lists or calls tools through the manager that
\* getMCPManager or ensureMCPConnected handed out, the connectAll of that
\* manager has completed with success: connect(config) has returned for every
\* configured server.
C25_ManagerConnectedBeforeUse ==
    pc \in {"listing", "ready"} =>
        \A s \in ServerNames : connPc[s] = "done"

\* C26: in every state of the MCPManager each tool name of the tool index
\* maps to a server that is in the connection map.
C26_IndexWithinConnections ==
    \A t \in DOMAIN toolToServer : toolToServer[t] \in connections

\* C27: after a connectAll that failed, once every connect has settled and
\* the teardown of the manager has returned, each process that connectAll
\* spawned has had its session close attempted by that teardown.
C27_FailedConnectAllTornDown ==
    (/\ discPc = "returned"
     /\ \E s \in ServerNames : connPc[s] \in ConnectFailures
     /\ \A s \in ServerNames : connPc[s] \notin {"handshaking", "listing"})
        => \A s \in ServerNames : procs[s] # "none" => s \in closeTried

\* The contents of the `text` chunks among cs[1..k] that belong to provider
\* call n, concatenated.
RECURSIVE TextOfCall(_, _, _, _)
TextOfCall(cs, calls, n, k) ==
    IF k = 0 THEN <<>>
    ELSE TextOfCall(cs, calls, n, k - 1)
           \o (IF cs[k].type = "text" /\ calls[k] = n THEN cs[k].content ELSE <<>>)

\* C28: once a provider chatStream call has returned, the text chunks the
\* orchestrator has emitted for that call, concatenated, are the content of
\* the assistant Message the call returned.
C28_EmittedTextIsContent ==
    (pc # "threw" /\ llmCalls >= 1) =>
        TextOfCall(out, outCall, llmCalls, Len(out)) = response.content

\* The contents of the `text` chunks of cs[1..k], concatenated.
RECURSIVE TextOf(_, _)
TextOf(cs, k) ==
    IF k = 0 THEN <<>>
    ELSE TextOf(cs, k - 1) \o (IF cs[k].type = "text" THEN cs[k].content ELSE <<>>)

\* C29: for a streaming turn of a user with no stored history, the history
\* stored when the turn has completed is one user entry followed by one
\* assistant entry whose content is all the text of the turn, and the history
\* stored when the turn has ended in an error is still empty.
C29_HistoryChangesOnSuccessOnly ==
    LET stored == ConsumeChunks(out, Len(out), <<>>).stored
    IN /\ pc = "returned" =>
             stored = <<[role |-> "user", content |-> UserMessage],
                        [role |-> "assistant", content |-> TextOf(out, Len(out))]>>
       /\ pc = "threw" => stored = <<>>

\* C30: a request to /chat/message, /chat/simple or /chat/mcp/message whose
\* message is missing, empty or no string is answered with the 400 response
\* and ends in no exception.  (The handler of such a request never starts the
\* orchestrator and never writes the history: its only other position would
\* be "streaming" or "awaiting".)
C30_InvalidMessageAnswered400 ==
    \A s \in Slots : req[s].pc # "threw TypeError"

====
